---- MODULE Spec2Model ----
(***************************************************************************)
(* Model of web3-verify: the RPC endpoint pool (RPCPool) with its          *)
(* per-endpoint health bookkeeping, periodic health probes, best-provider  *)
(* selection and executeWithRetry failover, and the EthersService methods  *)
(* that read the chain through it.  JavaScript runs every continuation to  *)
(* completion, so one action is the code between two awaits.               *)
(***************************************************************************)
EXTENDS Integers, Sequences, FiniteSets, TLC

\* ------------------------------------------------------------------ bounds
NumEndpoints == 3      \* endpoints of the pool in the general specification
NumCallers == 2        \* concurrent executeWithRetry callers, one call each
MaxCycles == 2         \* health-check cycles started in one behaviour
RetryEndpoints == 5    \* endpoints of the pool in the failover specification
MaxUrls == 3           \* longest configuration list besides the service's
NumAddresses == 2      \* distinct addresses in those configuration lists
ServiceEndpoints == 2  \* endpoints of the pool behind the service
MethodEndpoints == 4   \* endpoints of the pool behind the short methods
MaxLogs == 2           \* logs of a receipt checked for a target wallet
MaxClock == 3          \* last reading of Date.now() in the timed specification
ClockEndpoints == 2    \* endpoints of the pool in the timed specification
RotationEndpoints == 2 \* endpoints of the pool with the rotation timer
LiveEndpoints == 2     \* endpoints of the pool whose health checks go on forever
MaxFailureCount == 4   \* failures in a row that pool lets an endpoint collect

\* ------------------------------------------------------- program constants
maxFailures == 3
DefaultMaxRetries == 3

\* ----------------------------------------------------------------- strings
\* A string is a sequence of chunks; concatenation is \o.
Undefined == <<"<undefined>">>
UnknownError == <<"Unknown error">>
AllFailedPrefix == <<"All RPC attempts failed. ", "Last error: ">>

IsSubstring(t, s) ==
  \E k \in 0..(Len(s) - Len(t)) : \A j \in 1..Len(t) : s[k + j] = t[j]

\* Values an operation can reject with: an Error object carrying a message,
\* a bare string, or undefined.
ErrorValues ==
  { [type |-> "Error", text |-> <<"timeout">>],
    [type |-> "Error", text |-> <<"rate ", "limited">>],
    [type |-> "Error", text |-> <<>>],
    [type |-> "string", text |-> <<"socket hang up">>],
    [type |-> "undefined", text |-> <<>>] }

NoError == [type |-> "null", text |-> <<>>]

\* What the thrown value says went wrong.
Reason(err) == err.text

\* lastError?.message
MessageOf(err) == IF err.type = "Error" THEN err.text ELSE Undefined

\* x || "Unknown error": the empty string and undefined are falsy.
OrUnknown(m) == IF m = Undefined \/ m = <<>> THEN UnknownError ELSE m

AggregatedMessage(lastError) == AllFailedPrefix \o OrUnknown(MessageOf(lastError))

\* -------------------------------------------------------------- operations
Min(a, b) == IF a < b THEN a ELSE b

Range(s) == { s[k] : k \in 1..Len(s) }

initializeEndpoints(rpcUrls) ==
  [k \in 1..Len(rpcUrls) |->
     [url |-> rpcUrls[k], isHealthy |-> TRUE, latency |-> 0, failureCount |-> 0]]

\* Mutant: the comparator reversed (b.latency - a.latency).
InsertByLatencyDescending(eps, sorted, e) ==
  LET before == SelectSeq(sorted, LAMBDA x : eps[x].latency >= eps[e].latency)
      after == SelectSeq(sorted, LAMBDA x : eps[x].latency < eps[e].latency)
  IN before \o <<e>> \o after

\* Mutant: latency 0 is taken as not measured yet and sorted last.
InsertByLatencyUnmeasuredLast(eps, sorted, e) ==
  LET key(x) == IF eps[x].latency = 0 THEN 1000000 ELSE eps[x].latency
      before == SelectSeq(sorted, LAMBDA x : key(x) <= key(e))
      after == SelectSeq(sorted, LAMBDA x : key(x) > key(e))
  IN before \o <<e>> \o after

\* Array.prototype.sort is stable: an endpoint goes after every endpoint
\* already placed whose latency is not greater.
InsertByLatency(eps, sorted, e) ==
  LET before == SelectSeq(sorted, LAMBDA x : eps[x].latency <= eps[e].latency)
      after == SelectSeq(sorted, LAMBDA x : eps[x].latency > eps[e].latency)
  IN before \o <<e>> \o after

RECURSIVE SortByLatency(_, _)
SortByLatency(eps, idx) ==
  IF idx = <<>> THEN <<>>
  ELSE InsertByLatency(eps, SortByLatency(eps, SubSeq(idx, 1, Len(idx) - 1)),
                       idx[Len(idx)])

Indices(eps) == [k \in 1..Len(eps) |-> k]

\* Mutant: the filter without the sort.
getHealthyEndpointsUnsorted(eps) ==
  SelectSeq(Indices(eps), LAMBDA x : eps[x].isHealthy)

getHealthyEndpoints(eps) ==
  SortByLatency(eps, SelectSeq(Indices(eps), LAMBDA x : eps[x].isHealthy))

\* Mutant: with no healthy endpoint, all endpoints sorted by latency.
CandidatesSortedFallback(eps, maxRetries) ==
  LET healthy == getHealthyEndpoints(eps)
  IN IF Len(healthy) > 0 THEN healthy ELSE SortByLatency(eps, Indices(eps))

Candidates(eps, maxRetries) ==
  LET healthy == getHealthyEndpoints(eps)
  IN IF Len(healthy) > 0 THEN healthy
     ELSE SubSeq(Indices(eps), 1, Min(Len(eps), maxRetries))

\* Mutant: a successful attempt clears the latency as well.
MarkSuccessClearingLatency(ep) ==
  [ep EXCEPT !.failureCount = 0, !.isHealthy = TRUE, !.latency = 0]

MarkSuccess(ep) == [ep EXCEPT !.failureCount = 0, !.isHealthy = TRUE]

\* Mutant: failureCount <= maxFailures.
MarkFailureInclusive(ep) ==
  [ep EXCEPT !.failureCount = @ + 1,
             !.isHealthy = (ep.failureCount + 1 <= maxFailures)]

\* Mutant: the count stops at maxFailures.
MarkFailureSaturating(ep) ==
  [ep EXCEPT !.failureCount = Min(ep.failureCount + 1, maxFailures),
             !.isHealthy = (ep.failureCount + 1 < maxFailures)]

MarkFailure(ep) ==
  [ep EXCEPT !.failureCount = @ + 1,
             !.isHealthy = (ep.failureCount + 1 < maxFailures)]

\* Mutant: a passed health check stores the latency only.
ProbeSuccessLatencyOnly(ep, measured) == [ep EXCEPT !.latency = measured]

ProbeSuccess(ep, measured) ==
  [ep EXCEPT !.latency = measured, !.isHealthy = TRUE, !.failureCount = 0]

\* Mutant: isHealthy is not recomputed.
ProbeFailureStale(ep) == [ep EXCEPT !.failureCount = @ + 1]

ProbeFailure(ep) ==
  [ep EXCEPT !.failureCount = @ + 1,
             !.isHealthy = (ep.failureCount + 1 < maxFailures)]

ResetAll(eps) ==
  [k \in 1..Len(eps) |-> [eps[k] EXCEPT !.failureCount = 0, !.isHealthy = TRUE]]

\* ------------------------------------------------- EthersService: values
\* An address is the sequence of its characters after "0x"; a quantity
\* (bigint) is the sequence of its decimal digits, most significant first.
USDT_CONTRACT ==
  <<"0x", "5", "5", "d", "3", "9", "8", "3", "2", "6", "f", "9", "9", "0", "5",
     "9", "f", "f", "7", "7", "5", "4", "8", "5", "2", "4", "6", "9", "9",
     "9", "0", "2", "7", "b", "3", "1", "9", "7", "9", "5", "5">>

EtherDecimals == 18

LowerChar(c) ==
  CASE c = "A" -> "a" [] c = "B" -> "b" [] c = "C" -> "c"
    [] c = "D" -> "d" [] c = "E" -> "e" [] c = "F" -> "f" [] c = "0X" -> "0x"
    [] OTHER -> c

UpperChar(c) ==
  CASE c = "a" -> "A" [] c = "b" -> "B" [] c = "c" -> "C"
    [] c = "d" -> "D" [] c = "e" -> "E" [] c = "f" -> "F"
    [] OTHER -> c

toLowerCase(str) == [k \in 1..Len(str) |-> LowerChar(str[k])]

\* Mutant: the address is compared as written.
isUSDTContractExact(address) == address = USDT_CONTRACT

isUSDTContract(address) == toLowerCase(address) = toLowerCase(USDT_CONTRACT)

Zeros(n) == [k \in 1..n |-> "0"]

\* The digits up to the last one that is not "0".
StripTrailingZeros(digits) ==
  LET nonzero == { k \in 1..Len(digits) : digits[k] # "0" }
  IN IF nonzero = {} THEN <<>>
     ELSE SubSeq(digits, 1, CHOOSE k \in nonzero : \A j \in nonzero : j <= k)

\* The digits before and after the decimal point of quantity / 10^decimals.
WholePart(quantity, decimals) ==
  IF Len(quantity) > decimals
  THEN SubSeq(quantity, 1, Len(quantity) - decimals)
  ELSE <<"0">>

FractionPart(quantity, decimals) ==
  LET padded == Zeros(decimals - Len(quantity)) \o quantity
  IN StripTrailingZeros(SubSeq(padded, Len(padded) - decimals + 1, Len(padded)))

\* ethers.formatEther: the value over 10^18 with at least one decimal.
formatEther(value) ==
  LET fraction == FractionPart(value, EtherDecimals)
  IN WholePart(value, EtherDecimals) \o <<".">> \o
     (IF fraction = <<>> THEN <<"0">> ELSE fraction)

\* --------------------------------------------------- EthersService: logs
\* A hex string is "0x" followed by its characters.  A log has topics (hex
\* strings) and data (a hex string).
Null == <<"null">>

TRANSFER_EVENT_SIG_HASH == <<"0x", "ddf252ad", "1be2c89b", "f523b3ef">>

HexChars ==
  <<"0", "1", "2", "3", "4", "5", "6", "7", "8", "9", "a", "b", "c", "d", "e", "f">>

IsHexChar(c) == \E n \in 1..16 : HexChars[n] = LowerChar(c)

HexValue(c) == (CHOOSE n \in 1..16 : HexChars[n] = LowerChar(c)) - 1

DigitChar(n) == HexChars[n + 1]

DigitValue(c) == HexValue(c)

RECURSIVE SmallDecimal(_)
SmallDecimal(n) ==
  IF n = 0 THEN <<>> ELSE SmallDecimal(n \div 10) \o <<DigitChar(n % 10)>>

\* digits * m + carry, on decimal digits.
RECURSIVE TimesPlus(_, _, _)
TimesPlus(digits, m, carry) ==
  IF digits = <<>> THEN SmallDecimal(carry)
  ELSE LET v == DigitValue(digits[Len(digits)]) * m + carry
       IN TimesPlus(SubSeq(digits, 1, Len(digits) - 1), m, v \div 10)
            \o <<DigitChar(v % 10)>>

RECURSIVE HexDigitsToDecimal(_)
HexDigitsToDecimal(hex) ==
  IF hex = <<>> THEN <<>>
  ELSE TimesPlus(HexDigitsToDecimal(SubSeq(hex, 1, Len(hex) - 1)), 16,
                 HexValue(hex[Len(hex)]))

\* The digits up from the first one that is not "0".
SignificantDigits(digits) ==
  LET nonzero == { k \in 1..Len(digits) : digits[k] # "0" }
  IN IF nonzero = {} THEN <<>>
     ELSE SubSeq(digits, CHOOSE k \in nonzero : \A j \in nonzero : k <= j,
                 Len(digits))

\* BigInt(data).toString(): Null stands for the SyntaxError BigInt throws on
\* a string that is not a number ("0x" alone, or characters that are not hex
\* digits).
BigIntToString(data) ==
  IF Len(data) < 2 \/ data[1] # "0x" THEN Null
  ELSE IF \E k \in 2..Len(data) : ~IsHexChar(data[k]) THEN Null
  ELSE LET decimal == HexDigitsToDecimal(SignificantDigits(SubSeq(data, 2, Len(data))))
       IN IF decimal = <<>> THEN <<"0">> ELSE decimal

\* The casing ethers.getAddress gives an address (a function of the hash of
\* its lower-case form): here the letters at odd positions in upper case.
ChecksumCase(address) ==
  [k \in 1..Len(address) |->
     IF k = 1 THEN "0x"
     ELSE IF k % 2 = 1 THEN UpperChar(LowerChar(address[k]))
     ELSE LowerChar(address[k])]

\* Mutant: the address is read from the high 20 bytes of the topic.
AddressOfTopicHigh(topic) ==
  LET digits == SubSeq(topic, 2, Min(41, Len(topic)))
  IN IF Len(digits) = 40 /\ \A k \in 1..40 : IsHexChar(digits[k])
     THEN ChecksumCase(<<"0x">> \o digits)
     ELSE Null

\* ethers.getAddress(`0x${topic.slice(26)}`): Null stands for the error
\* thrown when what is left of the topic is not 40 hex digits.
AddressOfTopic(topic) ==
  LET digits == SubSeq(topic, 26, Len(topic))
  IN IF Len(digits) = 40 /\ \A k \in 1..40 : IsHexChar(digits[k])
     THEN ChecksumCase(<<"0x">> \o digits)
     ELSE Null

\* What stands for the null parseTransferLog returns.
NoTransfer == [from |-> Null, to |-> Null, value |-> Null]

\* Mutant: the first topic is not compared with the signature.
parseTransferLogAnySignature(log) ==
  IF Len(log.topics) < 3 THEN NoTransfer
  ELSE LET from == AddressOfTopic(log.topics[2])
           to == AddressOfTopic(log.topics[3])
           value == BigIntToString(log.data)
       IN IF from = Null \/ to = Null \/ value = Null THEN NoTransfer
          ELSE [from |-> from, to |-> to, value |-> value]

\* parseTransferLog: null when the first topic is not the Transfer signature
\* and when anything throws (a missing topic, a bad address, bad data).
parseTransferLog(log) ==
  IF Len(log.topics) = 0 \/ log.topics[1] # TRANSFER_EVENT_SIG_HASH
  THEN NoTransfer
  ELSE IF Len(log.topics) < 3 THEN NoTransfer
  ELSE LET from == AddressOfTopic(log.topics[2])
           to == AddressOfTopic(log.topics[3])
           value == BigIntToString(log.data)
       IN IF from = Null \/ to = Null \/ value = Null THEN NoTransfer
          ELSE [from |-> from, to |-> to, value |-> value]

\* Number.prototype.toString of a quotient below 10^-6: the significant
\* digits, a point after the first one, and the exponent.
ExponentForm(fraction) ==
  LET digits == SignificantDigits(fraction)
      exponent == Len(fraction) - Len(digits) + 1
  IN <<digits[1]>> \o
     (IF Len(digits) = 1 THEN <<>> ELSE <<".">> \o SubSeq(digits, 2, Len(digits)))
     \o <<"e", "-">> \o SmallDecimal(exponent)

\* (Number(raw) / Number(divisor)).toString() with divisor 10^decimals, for
\* quantities a double holds exactly and quotients below 10^21: a whole
\* number is written without a point, a quotient below 10^-6 with an
\* exponent.
ScaledAmount(raw, decimals) ==
  LET whole == WholePart(raw, decimals)
      fraction == FractionPart(raw, decimals)
  IN IF fraction = <<>> THEN whole
     ELSE IF whole = <<"0">> /\ Len(fraction) - Len(SignificantDigits(fraction)) >= 6
     THEN ExponentForm(fraction)
     ELSE whole \o <<".">> \o fraction

\* ------------------------------------------- EthersService: getDetailsByHash
\* A transaction has to (an address, or Null for a contract creation), from,
\* data (a hex string) and value (a quantity); a receipt has logs; token
\* details have symbol (characters) and decimals (a quantity).
NoTokenDetails == [symbol |-> Undefined, decimals |-> Undefined]

\* A JavaScript value used as a condition: undefined, null, "" and 0n are
\* falsy.
Truthy(x) == x \notin {Undefined, Null, <<>>, <<"0">>}

RECURSIVE QuantityValue(_)
QuantityValue(digits) ==
  IF digits = <<>> THEN 0
  ELSE 10 * QuantityValue(SubSeq(digits, 1, Len(digits) - 1))
         + DigitValue(digits[Len(digits)])

\* Mutant: the flags follow the address although the details are missing.
validateUSDTTransactionByAddress(contractAddress, tokenDetails) ==
  [isUSDT |-> isUSDTContract(contractAddress),
   tokenMismatch |-> ~isUSDTContract(contractAddress),
   symbol |-> tokenDetails.symbol, decimals |-> tokenDetails.decimals]

\* validateUSDTTransaction, tokenDetails being what getTokenDetails returned
\* (NoTokenDetails for null).
validateUSDTTransaction(contractAddress, tokenDetails) ==
  IF tokenDetails = NoTokenDetails
  THEN [isUSDT |-> FALSE, tokenMismatch |-> TRUE,
        symbol |-> Undefined, decimals |-> Undefined]
  ELSE [isUSDT |-> isUSDTContract(contractAddress),
        tokenMismatch |-> ~isUSDTContract(contractAddress),
        symbol |-> tokenDetails.symbol, decimals |-> tokenDetails.decimals]

\* tx.to && tx.data !== "0x"
IsContractInteraction(tx) == Truthy(tx.to) /\ tx.data # <<"0x">>

\* The TransactionDetails built before the classification, without the
\* fields taken from the block and the gas (datetime, blockNumber, gasUsed,
\* gasPrice, transactionFee, status).
BaseResult(tx) ==
  [contract |-> Null,
   toWalletAddress |-> IF tx.to = Null THEN <<>> ELSE tx.to,
   fromWalletAddress |-> tx.from,
   amount |-> <<"0">>,
   tokenSymbol |-> Undefined,
   tokenDecimals |-> Undefined,
   isUSDT |-> FALSE,
   tokenMismatch |-> FALSE,
   expectedContract |-> USDT_CONTRACT]

\* Mutant: a native transfer to the expected address passes the token check.
NativeResultByAddress(tx) ==
  [BaseResult(tx) EXCEPT !.amount = formatEther(tx.value),
                         !.tokenSymbol = <<"BNB">>,
                         !.tokenDecimals = <<"1", "8">>,
                         !.isUSDT = isUSDTContract(BaseResult(tx).toWalletAddress),
                         !.tokenMismatch = ~isUSDTContract(BaseResult(tx).toWalletAddress)]

\* The else branch: native BNB transfer.
NativeResult(tx) ==
  [BaseResult(tx) EXCEPT !.amount = formatEther(tx.value),
                         !.tokenSymbol = <<"BNB">>,
                         !.tokenDecimals = <<"1", "8">>,
                         !.isUSDT = FALSE,
                         !.tokenMismatch = TRUE]

\* receipt.logs.find: the first log whose first topic is the signature.
HasSignature(log) ==
  Len(log.topics) > 0 /\ log.topics[1] = TRANSFER_EVENT_SIG_HASH

\* The then branch: contract interaction, usdtValidation being what
\* validateUSDTTransaction(tx.to) returned.
ContractResult(tx, receipt, usdtValidation) ==
  LET flagged == [BaseResult(tx) EXCEPT !.contract = tx.to,
                                         !.isUSDT = usdtValidation.isUSDT,
                                         !.tokenMismatch = usdtValidation.tokenMismatch]
      found == SelectSeq(receipt.logs, HasSignature)
      transferData == parseTransferLog(found[1])
      moved == [flagged EXCEPT !.fromWalletAddress = transferData.from,
                               !.toWalletAddress = transferData.to]
  IN IF found = <<>> THEN flagged
     ELSE IF transferData = NoTransfer THEN flagged
     ELSE IF Truthy(usdtValidation.symbol) /\ Truthy(usdtValidation.decimals)
     THEN [moved EXCEPT !.tokenSymbol = usdtValidation.symbol,
                        !.tokenDecimals = usdtValidation.decimals,
                        !.amount = ScaledAmount(transferData.value,
                                                QuantityValue(usdtValidation.decimals))]
     ELSE [moved EXCEPT !.amount = transferData.value]

\* The message of the error getDetailsByHash throws from its catch block.
DetailsFailedPrefix == <<"Failed to fetch transaction details: ">>

WrappedMessage(message) == DetailsFailedPrefix \o message

TransactionNotFound == <<"Transaction not found">>

BlockNotFound == <<"block timestamp could not be found">>

\* ------------------------------------------- EthersService: the chain seen
\* What the provider of an endpoint answers the lookups of one transaction:
\* "present", "absent" (null) or "reject", per kind of lookup; token stands
\* for the symbol() and decimals() calls.
Profile(tx, receipt, block, token) ==
  [tx |-> tx, receipt |-> receipt, block |-> block, token |-> token]

Profiles ==
  { Profile("present", "present", "present", "present"),
    Profile("reject", "reject", "reject", "reject"),
    Profile("absent", "present", "present", "present"),
    Profile("present", "absent", "present", "present"),
    Profile("present", "reject", "present", "present"),
    Profile("present", "present", "absent", "present"),
    Profile("present", "present", "reject", "present"),
    Profile("present", "present", "present", "reject") }

Address(c) == <<"0x">> \o [k \in 1..40 |-> c]

TopicOf(address) == <<"0x">> \o Zeros(24) \o SubSeq(toLowerCase(address), 2, 41)

\* Transfer(from, to, value) emitted by a token contract, and some other event.
TransferLog(from, to, data) ==
  [topics |-> <<TRANSFER_EVENT_SIG_HASH, TopicOf(from), TopicOf(to)>>,
   data |-> data]

ApprovalLog ==
  [topics |-> <<<<"0x", "8c5be1e5", "ebec7d5b", "200ac8c7">>,
                TopicOf(Address("a")), TopicOf(Address("b"))>>,
   data |-> <<"0x", "1">>]

\* A Transfer event whose third argument is indexed (a fourth topic, no
\* data), as the events of non-fungible tokens are.
IndexedTransferLog ==
  [topics |-> <<TRANSFER_EVENT_SIG_HASH, TopicOf(Address("c")),
                TopicOf(Address("d")), <<"0x">> \o Zeros(63) \o <<"7">>>>,
   data |-> <<"0x">>]

\* 1500000000000000000 as a quantity and as hex data.
OneAndAHalfEther == <<"1", "5">> \o Zeros(17)

OneAndAHalfEtherData ==
  <<"0x", "1", "4", "d", "1", "1", "2", "0", "d", "7", "b", "1", "6", "0", "0", "0", "0">>

Scenario(to, data, value, logs, symbol, decimals) ==
  [tx |-> [to |-> to, from |-> Address("a"), data |-> data, value |-> value],
   receipt |-> [logs |-> logs],
   token |-> [symbol |-> symbol, decimals |-> decimals]]

\* The transactions looked up: plain value transfers to a wallet and to the
\* expected token address, and calls of the expected token (its address in
\* lower, upper and checksum case) and of another token, with and without a
\* Transfer event in the receipt, with a Transfer event that cannot be
\* decoded before one that can, and calls of tokens whose decimals() is 0 and
\* whose symbol() is the empty string.
Scenarios ==
  { Scenario(Address("b"), <<"0x">>, <<"1">> \o Zeros(18), <<>>, <<"USDT">>, <<"1", "8">>),
    Scenario(USDT_CONTRACT, <<"0x">>, OneAndAHalfEther, <<>>, <<"USDT">>, <<"1", "8">>),
    Scenario(Address("b"), <<"0x">>, <<"0">>, <<>>, <<"USDT">>, <<"1", "8">>) }
  \cup
  { Scenario(to, <<"0x", "a9059cbb">>, <<"0">>,
             <<TransferLog(Address("a"), Address("b"), OneAndAHalfEtherData)>>,
             <<"USDT">>, <<"1", "8">>) :
      to \in { USDT_CONTRACT, ChecksumCase(USDT_CONTRACT),
               [k \in 1..41 |-> UpperChar(USDT_CONTRACT[k])] } }
  \cup
  { Scenario(USDT_CONTRACT, <<"0x", "a9059cbb">>, <<"0">>,
             <<ApprovalLog,
               TransferLog(Address("a"), Address("b"), <<"0x", "2", "5">>)>>,
             <<"USDT">>, <<"1", "8">>),
    Scenario(USDT_CONTRACT, <<"0x", "095ea7b3">>, <<"0">>, <<ApprovalLog>>,
             <<"USDT">>, <<"1", "8">>),
    Scenario(Address("c"), <<"0x", "a9059cbb">>, <<"0">>,
             <<TransferLog(Address("a"), Address("b"),
                           <<"0x", "1", "6", "e", "3", "6", "0">>)>>,
             <<"TKN">>, <<"6">>),
    Scenario(USDT_CONTRACT, <<"0x", "23b872dd">>, <<"0">>,
             <<IndexedTransferLog,
               TransferLog(Address("c"), Address("b"), OneAndAHalfEtherData)>>,
             <<"USDT">>, <<"1", "8">>),
    Scenario(USDT_CONTRACT, <<"0x", "23b872dd">>, <<"0">>, <<IndexedTransferLog>>,
             <<"USDT">>, <<"1", "8">>),
    Scenario(Address("c"), <<"0x", "a9059cbb">>, <<"0">>,
             <<TransferLog(Address("a"), Address("b"), <<"0x", "2", "5">>)>>,
             <<"PTS">>, <<"0">>),
    Scenario(Address("c"), <<"0x", "a9059cbb">>, <<"0">>,
             <<TransferLog(Address("a"), Address("b"), OneAndAHalfEtherData)>>,
             <<>>, <<"1", "8">>) }

\* ------------------------------------------------------------------- state
VARIABLES
  endpoints,   \* RPCPool.endpoints: sequence of endpoint records
  env,         \* environment, fixed: rtts[k] the round trips a probe of endpoint k
               \* can measure, ops the operations callers pass, errs the values
               \* an operation rejects with, retries the maxRetries arguments
  probes,      \* health checks in flight: records [cycle, ep]
  cycles,      \* health-check cycles started so far
  timer,       \* healthCheckTimer is set and not cleared
  calls,       \* per caller: the activation of executeWithRetry
  svc          \* the activation of an EthersService method

vars == <<endpoints, env, probes, cycles, timer, calls, svc>>

Eps == 1..Len(endpoints)
Callers == DOMAIN calls

\* The locals of executeWithRetry (okOn is the operation fn: the providers it
\* resolves on), the endpoints fn was invoked on so far (attempts), and what
\* the caller got: result (the provider that answered) or error (the message).
IdleCall ==
  [pc |-> "idle", okOn |-> {}, maxRetries |-> 0, healthy |-> <<>>,
   candidates |-> <<>>, i |-> 0, lastError |-> NoError, attempts |-> <<>>,
   result |-> 0, error |-> <<>>]

\* The locals of an EthersService method: op the method, pc its position,
\* result what it returned, error the message of the error it threw.
IdleService == [op |-> "none", pc |-> "idle", result |-> <<>>, error |-> <<>>]

\* Mutant: maxRetries is ignored.
LimitCandidates(call) == Len(call.candidates)

\* Number of attempts one call makes: Math.min(candidates.length, maxRetries)
Limit(call) == Min(Len(call.candidates), call.maxRetries)

\* Mutant: the first rejection ends the call.
HasNextNever(call) == FALSE

\* The loop goes on to a next candidate.
HasNext(call) == call.i < Limit(call)

\* Mutant: only the first rejection is kept.
RecordFirstError(previous, err) == IF previous = NoError THEN err ELSE previous

\* lastError = error as Error
RecordError(previous, err) == err

\* executeWithRetry up to its first await.
StartedCall(eps, okOn, maxRetries) ==
  LET call == [IdleCall EXCEPT !.okOn = okOn, !.maxRetries = maxRetries,
                               !.healthy = getHealthyEndpoints(eps),
                               !.candidates = Candidates(eps, maxRetries)]
  IN IF Limit(call) = 0
     THEN [call EXCEPT !.pc = "threw", !.error = AggregatedMessage(NoError)]
     ELSE [call EXCEPT !.pc = "await", !.i = 1,
                       !.attempts = <<call.candidates[1]>>]

\* Mutant: the loop is not left, the next candidate is invoked as well.
OnSuccessOneMore(call, e) ==
  [call EXCEPT !.pc = "returned", !.result = e,
               !.attempts = IF call.i < Len(call.candidates)
                            THEN Append(call.attempts, call.candidates[call.i + 1])
                            ELSE call.attempts]

\* The success path: return result.
OnSuccess(call, e) == [call EXCEPT !.pc = "returned", !.result = e]

\* The catch block and the loop step: invoke fn on the next candidate, or
\* leave the loop and throw the aggregated error.
OnFailure(call, err) ==
  LET caught == [call EXCEPT !.lastError = RecordError(call.lastError, err)]
  IN IF HasNext(call)
     THEN [caught EXCEPT !.i = call.i + 1,
                         !.attempts = Append(call.attempts,
                                             call.candidates[call.i + 1])]
     ELSE [caught EXCEPT !.pc = "threw",
                         !.error = AggregatedMessage(caught.lastError)]

\* Mutant: the health checks awaited one after the other, only the first is
\* issued when the cycle starts.
CycleProbesSerial(eps, cycle) ==
  { [cycle |-> cycle, ep |-> k] : k \in 1..Min(1, Len(eps)) }

\* checkAllEndpoints: endpoints.map(checkEndpointHealth) calls every health
\* check up to its await before any of them is awaited.
CycleProbes(eps, cycle) == { [cycle |-> cycle, ep |-> k] : k \in 1..Len(eps) }

\* Mutant: the constructor sets the timer without the initial health check.
ConstructedIdle(rpcUrls, environment, callers) ==
  /\ endpoints = initializeEndpoints(rpcUrls)
  /\ env = environment
  /\ probes = {}
  /\ cycles = 0
  /\ timer = TRUE
  /\ calls = [c \in callers |-> IdleCall]
  /\ svc = IdleService

\* new RPCPool(rpcUrls): the endpoints are created healthy with latency 0,
\* the first health check of every endpoint is in flight, the timer is set.
Constructed(rpcUrls, environment, callers) ==
  /\ endpoints = initializeEndpoints(rpcUrls)
  /\ env = environment
  /\ probes = CycleProbes(initializeEndpoints(rpcUrls), 1)
  /\ cycles = 1
  /\ timer = TRUE
  /\ calls = [c \in callers |-> IdleCall]
  /\ svc = IdleService

Urls(n) == [k \in 1..n |-> k]

\* The general environment: a probe of endpoint 1 measures 20, of endpoint 2
\* measures 10, of any other 10 or 20; an operation rejects on every provider,
\* resolves on the last one only, or resolves on every provider.
Environment(n) ==
  [rtts |-> [k \in 1..n |-> IF k = 1 THEN {20} ELSE IF k = 2 THEN {10} ELSE {10, 20}],
   ops |-> {{}, {n}, 1..n},
   errs |-> {[type |-> "Error", text |-> <<"timeout">>]},
   retries |-> {DefaultMaxRetries}]

Init ==
  Constructed(Urls(NumEndpoints), Environment(NumEndpoints), 1..NumCallers)

\* ----------------------------------------------------------------- actions
\* A caller calls executeWithRetry(fn, maxRetries).
Start(c, okOn, maxRetries) ==
  /\ calls[c].pc = "idle"
  /\ calls' = [calls EXCEPT ![c] = StartedCall(endpoints, okOn, maxRetries)]
  /\ UNCHANGED <<endpoints, env, probes, cycles, timer, svc>>

\* The awaited operation resolves.
AttemptSucceeds(c) ==
  LET call == calls[c]
      e == call.candidates[call.i]
  IN /\ call.pc = "await"
     /\ e \in call.okOn
     /\ endpoints' = [endpoints EXCEPT ![e] = MarkSuccess(endpoints[e])]
     /\ calls' = [calls EXCEPT ![c] = OnSuccess(call, e)]
     /\ UNCHANGED <<env, probes, cycles, timer, svc>>

\* Mutant: when the last attempt has failed and no endpoint is healthy, the
\* catch block resets every endpoint as getBestProvider does.
AttemptFailsResetting(c, err) ==
  LET call == calls[c]
      e == call.candidates[call.i]
      marked == [endpoints EXCEPT ![e] = MarkFailure(endpoints[e])]
  IN /\ call.pc = "await"
     /\ e \notin call.okOn
     /\ endpoints' = IF ~HasNext(call) /\ getHealthyEndpoints(marked) = <<>>
                     THEN ResetAll(marked)
                     ELSE marked
     /\ calls' = [calls EXCEPT ![c] = OnFailure(call, err)]
     /\ UNCHANGED <<env, probes, cycles, timer, svc>>

\* Mutant: the catch block selects the candidates again before it goes on.
AttemptFailsReselecting(c, err) ==
  LET call == calls[c]
      e == call.candidates[call.i]
      marked == [endpoints EXCEPT ![e] = MarkFailure(endpoints[e])]
      again == [call EXCEPT !.candidates = Candidates(marked, call.maxRetries)]
  IN /\ call.pc = "await"
     /\ e \notin call.okOn
     /\ endpoints' = marked
     /\ calls' = [calls EXCEPT ![c] = OnFailure(again, err)]
     /\ UNCHANGED <<env, probes, cycles, timer, svc>>

\* The awaited operation rejects with err.
AttemptFails(c, err) ==
  LET call == calls[c]
      e == call.candidates[call.i]
  IN /\ call.pc = "await"
     /\ e \notin call.okOn
     /\ endpoints' = [endpoints EXCEPT ![e] = MarkFailure(endpoints[e])]
     /\ calls' = [calls EXCEPT ![c] = OnFailure(call, err)]
     /\ UNCHANGED <<env, probes, cycles, timer, svc>>

\* setInterval callback: checkAllEndpoints issues one probe per endpoint.
Tick ==
  /\ timer
  /\ cycles < MaxCycles
  /\ cycles' = cycles + 1
  /\ probes' = probes \cup CycleProbes(endpoints, cycles + 1)
  /\ UNCHANGED <<endpoints, env, timer, calls, svc>>

\* checkEndpointHealth after getBlockNumber resolved.
ProbeSucceeds(p, measured) ==
  /\ p \in probes
  /\ measured \in env.rtts[p.ep]
  /\ endpoints' = [endpoints EXCEPT ![p.ep] = ProbeSuccess(endpoints[p.ep], measured)]
  /\ probes' = probes \ {p}
  /\ UNCHANGED <<env, cycles, timer, calls, svc>>

\* checkEndpointHealth after getBlockNumber rejected.
ProbeFails(p) ==
  /\ p \in probes
  /\ endpoints' = [endpoints EXCEPT ![p.ep] = ProbeFailure(endpoints[p.ep])]
  /\ probes' = probes \ {p}
  /\ UNCHANGED <<env, cycles, timer, calls, svc>>

\* The endpoint whose provider getBestProvider returns.
BestProvider(eps) ==
  LET healthy == getHealthyEndpoints(eps)
  IN IF Len(healthy) = 0 THEN 1 ELSE healthy[1]

\* getBestProvider: with no healthy endpoint every endpoint is reset.
getBestProvider ==
  /\ Len(endpoints) > 0
  /\ IF Len(getHealthyEndpoints(endpoints)) = 0
     THEN endpoints' = ResetAll(endpoints)
     ELSE endpoints' = endpoints
  /\ UNCHANGED <<env, probes, cycles, timer, calls, svc>>

\* Mutant: destroy on a cleared timer sets it again.
destroyToggles ==
  /\ timer' = ~timer
  /\ UNCHANGED <<endpoints, env, probes, cycles, calls, svc>>

\* destroy: clearInterval(healthCheckTimer)
destroy ==
  /\ timer' = FALSE
  /\ UNCHANGED <<endpoints, env, probes, cycles, calls, svc>>

Next ==
  \/ \E c \in Callers, okOn \in env.ops, m \in env.retries : Start(c, okOn, m)
  \/ \E c \in Callers : AttemptSucceeds(c)
  \/ \E c \in Callers, err \in env.errs : AttemptFails(c, err)
  \/ Tick
  \/ \E p \in probes, m \in UNION Range(env.rtts) : ProbeSucceeds(p, m)
  \/ \E p \in probes : ProbeFails(p)
  \/ getBestProvider

Spec == Init /\ [][Next]_vars

\* ------------------------------------------------ failover of a single call
\* One executeWithRetry call on a pool whose probes have completed: endpoint k
\* was measured at RetryLatency(k) and has failed 0, 2 or 3 times in a row.
ScenarioLatencies == <<80, 10, 40, 20, 60>>

RetryLatency(k) ==
  IF k <= Len(ScenarioLatencies) THEN ScenarioLatencies[k] ELSE 10 * k + 5

RetryEnvironment(n) ==
  [rtts |-> [k \in 1..n |-> {RetryLatency(k)}],
   ops |-> SUBSET (1..n),
   errs |-> ErrorValues,
   retries |-> {2, DefaultMaxRetries}]

InitRetry ==
  \E fc \in [1..RetryEndpoints -> {0, maxFailures - 1, maxFailures}] :
    /\ endpoints = [k \in 1..RetryEndpoints |->
                      [url |-> k, isHealthy |-> (fc[k] < maxFailures),
                       latency |-> RetryLatency(k), failureCount |-> fc[k]]]
    /\ env = RetryEnvironment(RetryEndpoints)
    /\ probes = {}
    /\ cycles = 1
    /\ timer = TRUE
    /\ calls = [c \in {1} |-> IdleCall]
    /\ svc = IdleService

NextRetry ==
  \/ \E c \in Callers, okOn \in env.ops, m \in env.retries : Start(c, okOn, m)
  \/ \E c \in Callers : AttemptSucceeds(c)
  \/ \E c \in Callers, err \in env.errs : AttemptFails(c, err)

SpecRetry == InitRetry /\ [][NextRetry]_vars

\* --------------------------------------------- operations on one endpoint
\* The freshly constructed pool right after every caller has called
\* executeWithRetry: the calls and the first health checks are all in flight,
\* the calls and the health check of endpoint 1 on the same endpoint.
InitRace ==
  \E ops \in [1..NumCallers -> Environment(NumEndpoints).ops] :
    /\ endpoints = initializeEndpoints(Urls(NumEndpoints))
    /\ env = Environment(NumEndpoints)
    /\ probes = CycleProbes(initializeEndpoints(Urls(NumEndpoints)), 1)
    /\ cycles = 1
    /\ timer = TRUE
    /\ calls = [c \in 1..NumCallers |->
                  StartedCall(initializeEndpoints(Urls(NumEndpoints)), ops[c],
                              DefaultMaxRetries)]
    /\ svc = IdleService

NextRace ==
  \/ \E c \in Callers : AttemptSucceeds(c)
  \/ \E c \in Callers, err \in env.errs : AttemptFails(c, err)
  \/ Tick
  \/ \E p \in probes, m \in UNION Range(env.rtts) : ProbeSucceeds(p, m)
  \/ \E p \in probes : ProbeFails(p)

SpecRace == InitRace /\ [][NextRace]_vars

\* ------------------------------------------------ the health-check schedule
\* The pool on its own: the constructor's health check, the interval timer and
\* destroy, with no executeWithRetry caller.
InitProbe ==
  Constructed(Urls(NumEndpoints), Environment(NumEndpoints), {})

NextProbe ==
  \/ Tick
  \/ \E p \in probes, m \in UNION Range(env.rtts) : ProbeSucceeds(p, m)
  \/ \E p \in probes : ProbeFails(p)
  \/ destroy

SpecProbe == InitProbe /\ [][NextProbe]_vars

\* ------------------------------------------------------------ statistics
\* Mutant: the entries in ascending order of latency.
getStatsByLatency(eps) ==
  LET order == SortByLatency(eps, Indices(eps))
  IN [total |-> Len(eps),
      healthy |-> Len(SelectSeq(eps, LAMBDA e : e.isHealthy)),
      endpoints |-> [k \in 1..Len(eps) |->
                       [url |-> eps[order[k]].url,
                        isHealthy |-> eps[order[k]].isHealthy,
                        latency |-> eps[order[k]].latency,
                        failureCount |-> eps[order[k]].failureCount]]]

\* getStats: total, healthy and one entry per endpoint, in array order.
getStats(eps) ==
  [total |-> Len(eps),
   healthy |-> Len(SelectSeq(eps, LAMBDA e : e.isHealthy)),
   endpoints |-> [k \in 1..Len(eps) |->
                    [url |-> eps[k].url, isHealthy |-> eps[k].isHealthy,
                     latency |-> eps[k].latency,
                     failureCount |-> eps[k].failureCount]]]

\* EthersService.getRPCStats: the pool's getStats, synchronously.
getRPCStats ==
  /\ svc.op \in {"none", "getRPCStats"}
  /\ svc' = [IdleService EXCEPT !.op = "getRPCStats", !.pc = "returned",
                                !.result = getStats(endpoints)]
  /\ UNCHANGED <<endpoints, env, probes, cycles, timer, calls>>

\* A pool whose health checks have completed (endpoint k measured at
\* RetryLatency(k), failed 0, 2 or 3 times in a row), one executeWithRetry
\* caller, and statistics queries at any moment.
InitStats ==
  \E fc \in [1..NumEndpoints -> {0, maxFailures - 1, maxFailures}] :
    /\ endpoints = [k \in 1..NumEndpoints |->
                      [url |-> k, isHealthy |-> (fc[k] < maxFailures),
                       latency |-> RetryLatency(k), failureCount |-> fc[k]]]
    /\ env = Environment(NumEndpoints)
    /\ probes = {}
    /\ cycles = 1
    /\ timer = TRUE
    /\ calls = [c \in {1} |-> IdleCall]
    /\ svc = IdleService

NextStats ==
  \/ \E c \in Callers, okOn \in env.ops, m \in env.retries : Start(c, okOn, m)
  \/ \E c \in Callers : AttemptSucceeds(c)
  \/ \E c \in Callers, err \in env.errs : AttemptFails(c, err)
  \/ getRPCStats

SpecStats == InitStats /\ [][NextStats]_vars

\* ------------------------------------------------------- getDetailsByHash
\* The three pool operations of getDetailsByHash are the executeWithRetry
\* calls of the callers "lookup" (transaction and receipt), "block" and
\* "token" (getTokenDetails).
ServiceCallers == {"lookup", "block", "token"}

\* Mutant: a null transaction or receipt rejects like a failed lookup.
LookupResolvesOnPresent ==
  { e \in Eps : env.view[e].tx = "present" /\ env.view[e].receipt = "present" }

\* Mutant: the pool operation is getTransaction alone, the receipt is taken
\* from wherever it can be had.
LookupResolvesOnTransaction == { e \in Eps : env.view[e].tx # "reject" }

\* Promise.all of getTransaction and getTransactionReceipt: resolves when both
\* resolve, with a value or null each.
LookupResolvesOn ==
  { e \in Eps : env.view[e].tx # "reject" /\ env.view[e].receipt # "reject" }

BlockResolvesOn == { e \in Eps : env.view[e].block # "reject" }

TokenResolvesOn == { e \in Eps : env.view[e].token # "reject" }

Threw(message) ==
  [svc EXCEPT !.pc = "threw", !.error = WrappedMessage(message)]

Returned(result) == [svc EXCEPT !.pc = "returned", !.result = result]

\* Mutant: only the transaction is tested.
PairMissingTransaction(e) == env.view[e].tx = "absent"

\* !tx || !receipt, for the pair the provider of endpoint e resolved with.
PairMissing(e) == env.view[e].tx = "absent" \/ env.view[e].receipt = "absent"

\* getDetailsByHash up to its first await.
getDetailsByHash ==
  /\ svc.op = "none"
  /\ svc' = [IdleService EXCEPT !.op = "getDetailsByHash", !.pc = "lookup"]
  /\ calls' = [calls EXCEPT !["lookup"] =
                 StartedCall(endpoints, LookupResolvesOn, DefaultMaxRetries)]
  /\ UNCHANGED <<endpoints, env, probes, cycles, timer>>

\* From the first await to the second: the pair is checked, then the block
\* is asked for.
DetailsAfterLookup ==
  LET call == calls["lookup"]
  IN /\ svc.op = "getDetailsByHash"
     /\ svc.pc = "lookup"
     /\ call.pc \in {"returned", "threw"}
     /\ IF call.pc = "threw"
        THEN svc' = Threw(call.error) /\ calls' = calls
        ELSE IF PairMissing(call.result)
        THEN svc' = Threw(TransactionNotFound) /\ calls' = calls
        ELSE /\ svc' = [svc EXCEPT !.pc = "block"]
             /\ calls' = [calls EXCEPT !["block"] =
                            StartedCall(endpoints, BlockResolvesOn,
                                        DefaultMaxRetries)]
     /\ UNCHANGED <<endpoints, env, probes, cycles, timer>>

\* From the second await on: the block is checked and the transaction
\* classified; a native transfer returns, a contract interaction asks for
\* the token details.
DetailsAfterBlock ==
  LET call == calls["block"]
  IN /\ svc.op = "getDetailsByHash"
     /\ svc.pc = "block"
     /\ call.pc \in {"returned", "threw"}
     /\ IF call.pc = "threw"
        THEN svc' = Threw(call.error) /\ calls' = calls
        ELSE IF env.view[call.result].block = "absent"
        THEN svc' = Threw(BlockNotFound) /\ calls' = calls
        ELSE IF IsContractInteraction(env.tx)
        THEN /\ svc' = [svc EXCEPT !.pc = "token"]
             /\ calls' = [calls EXCEPT !["token"] =
                            StartedCall(endpoints, TokenResolvesOn,
                                        DefaultMaxRetries)]
        ELSE svc' = Returned(NativeResult(env.tx)) /\ calls' = calls
     /\ UNCHANGED <<endpoints, env, probes, cycles, timer>>

\* getTokenDetails returned (null when its executeWithRetry threw), then
\* validateUSDTTransaction and the rest of the then branch.
DetailsAfterToken ==
  LET call == calls["token"]
      tokenDetails == IF call.pc = "threw" THEN NoTokenDetails ELSE env.token
  IN /\ svc.op = "getDetailsByHash"
     /\ svc.pc = "token"
     /\ call.pc \in {"returned", "threw"}
     /\ svc' = Returned(ContractResult(env.tx, env.receipt,
                   validateUSDTTransaction(env.tx.to, tokenDetails)))
     /\ UNCHANGED <<endpoints, env, probes, cycles, timer, calls>>

\* A pool of ServiceEndpoints healthy endpoints whose health checks have
\* completed, each provider with its own view of the chain, and one
\* transaction to look up.
ServiceEnvironment(n, view, scenario) ==
  [rtts |-> [k \in 1..n |-> {RetryLatency(k)}],
   ops |-> {},
   errs |-> {[type |-> "Error", text |-> <<"timeout">>]},
   retries |-> {DefaultMaxRetries},
   view |-> view,
   tx |-> scenario.tx,
   receipt |-> scenario.receipt,
   token |-> scenario.token]

InitService ==
  \E view \in [1..ServiceEndpoints -> Profiles], scenario \in Scenarios :
    /\ endpoints = [k \in 1..ServiceEndpoints |->
                      [url |-> k, isHealthy |-> TRUE,
                       latency |-> RetryLatency(k), failureCount |-> 0]]
    /\ env = ServiceEnvironment(ServiceEndpoints, view, scenario)
    /\ probes = {}
    /\ cycles = 1
    /\ timer = TRUE
    /\ calls = [c \in ServiceCallers |-> IdleCall]
    /\ svc = IdleService

NextService ==
  \/ getDetailsByHash
  \/ DetailsAfterLookup
  \/ DetailsAfterBlock
  \/ DetailsAfterToken
  \/ \E c \in Callers : AttemptSucceeds(c)
  \/ \E c \in Callers, err \in env.errs : AttemptFails(c, err)

SpecService == InitService /\ [][NextService]_vars

\* --------------------------------------------------- configuration lists
\* The list EthersService passes to the pool (RPC_URL1, RPC_URL2, RPC_URL3,
\* RPC_URL4, RPC_URL4, RPC_URL5), address k standing for RPC_URLk.
ServiceUrls == <<1, 2, 3, 4, 4, 5>>

\* Configuration lists: the service's, and every list of up to MaxUrls
\* addresses out of NumAddresses.
ConfigLists ==
  {ServiceUrls} \cup UNION { [1..n -> 1..NumAddresses] : n \in 1..MaxUrls }

\* A pool constructed from any configuration list, and its first health
\* checks.
InitConfig ==
  \E rpcUrls \in ConfigLists :
    Constructed(rpcUrls, Environment(Len(rpcUrls)), {})

NextConfig ==
  \/ \E p \in probes, m \in UNION Range(env.rtts) : ProbeSucceeds(p, m)
  \/ \E p \in probes : ProbeFails(p)

SpecConfig == InitConfig /\ [][NextConfig]_vars

\* ------------------------------------------ EthersService: short methods
\* validateContractIsUSDT, transactionExists, getCurrentBlockNumber and
\* isConnected make one pool call each: the executeWithRetry calls of the
\* callers "token" (getTokenDetails), "exists" (getTransaction) and "head"
\* (getBlockNumber).
MethodCallers == {"token", "exists", "head"}

\* What the provider of an endpoint answers getTransaction (tx), the symbol()
\* and decimals() calls (token) and getBlockNumber (head).
Answers(tx, token, head) == [tx |-> tx, token |-> token, head |-> head]

AnswerSets ==
  { Answers("present", "present", "present"),
    Answers("absent", "present", "present"),
    Answers("reject", "reject", "reject") }

\* The block number the provider of endpoint e reports.
HeightAt(e) == 100 + e

\* The contract asked about and its metadata: the expected token (its address
\* in lower, checksum and upper case), another token, and a token whose
\* decimals() is 0.
Contracts ==
  { [address |-> a, token |-> [symbol |-> <<"USDT">>, decimals |-> <<"1", "8">>]] :
      a \in { USDT_CONTRACT, ChecksumCase(USDT_CONTRACT),
              [k \in 1..41 |-> UpperChar(USDT_CONTRACT[k])] } }
  \cup
  { [address |-> Address("c"), token |-> [symbol |-> <<"TKN">>, decimals |-> <<"6">>]],
    [address |-> Address("d"), token |-> [symbol |-> <<"NFT">>, decimals |-> <<"0">>]] }

\* Mutant: a null transaction rejects like a failed lookup.
TransactionResolvesOnPresent == { e \in Eps : env.view[e].tx = "present" }

\* getTransaction resolves with the transaction or with null.
TransactionResolvesOn == { e \in Eps : env.view[e].tx # "reject" }

HeadResolvesOn == { e \in Eps : env.view[e].head # "reject" }

\* What validateContractIsUSDT returns for what validateUSDTTransaction
\* returned; NoTokenDetails stands for details: undefined.
ValidationResult(validation) ==
  [isValid |-> ~validation.tokenMismatch,
   isUSDT |-> validation.isUSDT,
   tokenMismatch |-> validation.tokenMismatch,
   details |-> IF Truthy(validation.symbol) /\ Truthy(validation.decimals)
               THEN [symbol |-> validation.symbol, decimals |-> validation.decimals]
               ELSE NoTokenDetails]

\* The message of the error getCurrentBlockNumber throws from its catch block.
BlockNumberFailed == <<"Failed to fetch block number">>

\* validateContractIsUSDT(contractAddress) up to its await.
validateContractIsUSDT ==
  /\ svc.op = "none"
  /\ svc' = [IdleService EXCEPT !.op = "validateContractIsUSDT", !.pc = "token"]
  /\ calls' = [calls EXCEPT !["token"] =
                 StartedCall(endpoints, TokenResolvesOn, DefaultMaxRetries)]
  /\ UNCHANGED <<endpoints, env, probes, cycles, timer>>

\* getTokenDetails returned (null when its executeWithRetry threw), then
\* validateUSDTTransaction and the return.
ContractValidated ==
  LET call == calls["token"]
      tokenDetails == IF call.pc = "threw" THEN NoTokenDetails ELSE env.token
  IN /\ svc.op = "validateContractIsUSDT"
     /\ svc.pc = "token"
     /\ call.pc \in {"returned", "threw"}
     /\ svc' = Returned(ValidationResult(
                  validateUSDTTransaction(env.address, tokenDetails)))
     /\ UNCHANGED <<endpoints, env, probes, cycles, timer, calls>>

\* transactionExists(hash) up to its await.
transactionExists ==
  /\ svc.op = "none"
  /\ svc' = [IdleService EXCEPT !.op = "transactionExists", !.pc = "exists"]
  /\ calls' = [calls EXCEPT !["exists"] =
                 StartedCall(endpoints, TransactionResolvesOn, DefaultMaxRetries)]
  /\ UNCHANGED <<endpoints, env, probes, cycles, timer>>

\* return !!tx, or false from the catch block.
ExistsAnswered ==
  LET call == calls["exists"]
  IN /\ svc.op = "transactionExists"
     /\ svc.pc = "exists"
     /\ call.pc \in {"returned", "threw"}
     /\ svc' = Returned(IF call.pc = "threw" THEN FALSE
                        ELSE env.view[call.result].tx = "present")
     /\ UNCHANGED <<endpoints, env, probes, cycles, timer, calls>>

\* getCurrentBlockNumber() up to its await.
getCurrentBlockNumber ==
  /\ svc.op = "none"
  /\ svc' = [IdleService EXCEPT !.op = "getCurrentBlockNumber", !.pc = "head"]
  /\ calls' = [calls EXCEPT !["head"] =
                 StartedCall(endpoints, HeadResolvesOn, DefaultMaxRetries)]
  /\ UNCHANGED <<endpoints, env, probes, cycles, timer>>

\* Mutant: the catch block returns 0.
BlockNumberAnsweredSwallows ==
  LET call == calls["head"]
  IN /\ svc.op = "getCurrentBlockNumber"
     /\ svc.pc = "head"
     /\ call.pc \in {"returned", "threw"}
     /\ svc' = Returned(IF call.pc = "threw" THEN 0 ELSE HeightAt(call.result))
     /\ UNCHANGED <<endpoints, env, probes, cycles, timer, calls>>

\* return BigInt(blockNumber), or the throw of the catch block.
BlockNumberAnswered ==
  LET call == calls["head"]
  IN /\ svc.op = "getCurrentBlockNumber"
     /\ svc.pc = "head"
     /\ call.pc \in {"returned", "threw"}
     /\ svc' = IF call.pc = "threw"
               THEN [svc EXCEPT !.pc = "threw", !.error = BlockNumberFailed]
               ELSE Returned(HeightAt(call.result))
     /\ UNCHANGED <<endpoints, env, probes, cycles, timer, calls>>

\* isConnected() up to its await.
isConnected ==
  /\ svc.op = "none"
  /\ svc' = [IdleService EXCEPT !.op = "isConnected", !.pc = "head"]
  /\ calls' = [calls EXCEPT !["head"] =
                 StartedCall(endpoints, HeadResolvesOn, DefaultMaxRetries)]
  /\ UNCHANGED <<endpoints, env, probes, cycles, timer>>

\* Mutant: the catch block throws the error on.
ConnectedAnsweredRethrows ==
  LET call == calls["head"]
  IN /\ svc.op = "isConnected"
     /\ svc.pc = "head"
     /\ call.pc \in {"returned", "threw"}
     /\ svc' = IF call.pc = "threw"
               THEN [svc EXCEPT !.pc = "threw", !.error = call.error]
               ELSE Returned(TRUE)
     /\ UNCHANGED <<endpoints, env, probes, cycles, timer, calls>>

\* return true, or false from the catch block.
ConnectedAnswered ==
  LET call == calls["head"]
  IN /\ svc.op = "isConnected"
     /\ svc.pc = "head"
     /\ call.pc \in {"returned", "threw"}
     /\ svc' = Returned(call.pc = "returned")
     /\ UNCHANGED <<endpoints, env, probes, cycles, timer, calls>>

\* A pool of MethodEndpoints endpoints whose health checks have completed
\* (all healthy, the slowest one unhealthy, or all unhealthy), each provider
\* with its own answers, and one contract to ask about.
MethodEnvironment(n, view, contract) ==
  [rtts |-> [k \in 1..n |-> {RetryLatency(k)}],
   ops |-> {},
   errs |-> {[type |-> "Error", text |-> <<"timeout">>]},
   retries |-> {DefaultMaxRetries},
   view |-> view,
   address |-> contract.address,
   token |-> contract.token]

InitMethods ==
  \E view \in [1..MethodEndpoints -> AnswerSets], contract \in Contracts,
     down \in {{}, {1}, 1..MethodEndpoints} :
    /\ endpoints = [k \in 1..MethodEndpoints |->
                      [url |-> k, isHealthy |-> k \notin down,
                       latency |-> RetryLatency(k),
                       failureCount |-> IF k \in down THEN maxFailures ELSE 0]]
    /\ env = MethodEnvironment(MethodEndpoints, view, contract)
    /\ probes = {}
    /\ cycles = 1
    /\ timer = TRUE
    /\ calls = [c \in MethodCallers |-> IdleCall]
    /\ svc = IdleService

NextMethods ==
  \/ validateContractIsUSDT
  \/ ContractValidated
  \/ transactionExists
  \/ ExistsAnswered
  \/ getCurrentBlockNumber
  \/ BlockNumberAnswered
  \/ isConnected
  \/ ConnectedAnswered
  \/ \E c \in Callers : AttemptSucceeds(c)
  \/ \E c \in Callers, err \in env.errs : AttemptFails(c, err)

SpecMethods == InitMethods /\ [][NextMethods]_vars

\* ------------------------------------------------------ parseTransferLog
\* parseTransferLog applied to one log, and the scaling of the value it
\* decoded (raw / 10^decimals) as getDetailsByHash does it.
\* The catch block of parseTransferLog is entered (console.error, return
\* null): the signature matched and reading the topics or the data threw.
parseTransferLogFails(log) == HasSignature(log) /\ parseTransferLog(log) = NoTransfer

\* A topic whose high 12 bytes are not zero, and one that is too short.
DirtyTopic == <<"0x">> \o [k \in 1..24 |-> "f"] \o [k \in 1..40 |-> "b"]

ShortTopic == <<"0x", "1", "2">>

AddressTopics ==
  { TopicOf(Address("a")), TopicOf(USDT_CONTRACT), DirtyTopic, ShortTopic }

OtherSignature == <<"0x", "8c5be1e5", "ebec7d5b", "200ac8c7">>

\* 1000000000000000000 as 8 bytes and as a 32-byte word.
OneEtherData ==
  <<"0x", "0", "d", "e", "0", "b", "6", "b", "3", "a", "7", "6", "4", "0", "0", "0", "0">>

OneEtherWord == <<"0x">> \o Zeros(48) \o SubSeq(OneEtherData, 2, 17)

LogData ==
  { <<"0x">>, <<"0x", "z", "z">>, <<"0x", "2", "5">>, OneEtherData, OneEtherWord,
    OneAndAHalfEtherData }

\* No topic, the signature alone, with one, two or three more topics, and
\* another event's signature with two more topics.
LogTopics ==
  { <<>>, <<TRANSFER_EVENT_SIG_HASH>> }
  \cup { <<TRANSFER_EVENT_SIG_HASH, t>> : t \in AddressTopics }
  \cup { <<first, t, u>> : first \in {TRANSFER_EVENT_SIG_HASH, OtherSignature},
                           t \in AddressTopics, u \in AddressTopics }
  \cup { <<TRANSFER_EVENT_SIG_HASH, TopicOf(Address("a")), t, TopicOf(Address("c"))>> :
           t \in AddressTopics }

Logs == { [topics |-> topics, data |-> data] : topics \in LogTopics, data \in LogData }

TokenDecimals == { <<"6">>, <<"1", "8">> }

\* What parseTransferLog gave: the value returned, and whether the error was
\* written to the console.
Parsed(log) ==
  [transfer |-> parseTransferLog(log), logged |-> parseTransferLogFails(log),
   amount |-> Null]

\* this.parseTransferLog(transferLog)
Decode ==
  /\ svc.op = "none"
  /\ svc' = [IdleService EXCEPT !.op = "parseTransferLog", !.pc = "returned",
                                !.result = Parsed(env.log)]
  /\ UNCHANGED <<endpoints, env, probes, cycles, timer, calls>>

\* Number(raw) / Number(divisor), for the decimals of the token.
Scale ==
  /\ svc.op = "parseTransferLog"
  /\ svc.result.transfer # NoTransfer
  /\ svc' = [svc EXCEPT !.op = "scale",
                        !.result.amount =
                           ScaledAmount(svc.result.transfer.value,
                                        QuantityValue(env.decimals))]
  /\ UNCHANGED <<endpoints, env, probes, cycles, timer, calls>>

InitDecode ==
  \E log \in Logs, decimals \in TokenDecimals :
    /\ endpoints = initializeEndpoints(Urls(ServiceEndpoints))
    /\ env = [log |-> log, decimals |-> decimals]
    /\ probes = {}
    /\ cycles = 1
    /\ timer = TRUE
    /\ calls = [c \in {} |-> IdleCall]
    /\ svc = IdleService

NextDecode == Decode \/ Scale

SpecDecode == InitDecode /\ [][NextDecode]_vars

\* ------------------------------------- validateTransactionForTargetWallet
\* The method is called by GET /transaction/:hash and by the test script but
\* its body is not part of the sources: it is modelled from its description
\* (every Transfer event of the receipt is decoded; the first one received by
\* the wallet from the expected token is preferred, else the first one
\* received by the wallet) and from the fields its callers read.
\* A log of the receipt with the contract that emitted it.
EmittedBy(address, log) ==
  [address |-> address, topics |-> log.topics, data |-> log.data]

\* The target wallet, and another one.
TargetWallet == Address("b")

ReceiptLogs ==
  { EmittedBy(USDT_CONTRACT,
              TransferLog(Address("a"), TargetWallet, OneAndAHalfEtherData)),
    EmittedBy(USDT_CONTRACT,
              TransferLog(Address("a"), Address("d"), OneEtherData)),
    EmittedBy(Address("c"),
              TransferLog(Address("a"), TargetWallet, <<"0x", "2", "5">>)),
    EmittedBy(Address("c"), IndexedTransferLog),
    EmittedBy(USDT_CONTRACT, ApprovalLog) }

\* The receipts: up to MaxLogs logs.
Receipts == UNION { [1..n -> ReceiptLogs] : n \in 0..MaxLogs }

\* The wallet as the route passes it (lower case) and in checksum case.
Wallets == { TargetWallet, ChecksumCase(TargetWallet) }

ReceivedBy(log, wallet) ==
  /\ parseTransferLog(log) # NoTransfer
  /\ toLowerCase(parseTransferLog(log).to) = toLowerCase(wallet)

\* Mutant: only the first log with the Transfer signature is examined.
MatchingEventsFirstOnly(logs, wallet) ==
  LET found == SelectSeq(logs, HasSignature)
  IN IF found # <<>> /\ ReceivedBy(found[1], wallet) THEN <<found[1]>> ELSE <<>>

\* The Transfer events of the receipt received by the wallet, in log order.
MatchingEvents(logs, wallet) ==
  LET Matches(log) == ReceivedBy(log, wallet)
  IN SelectSeq(logs, Matches)

FromExpectedToken(log) == isUSDTContract(log.address)

\* The result for the chosen event, or for none.
WalletValidation(logs, wallet) ==
  LET matching == MatchingEvents(logs, wallet)
      preferred == SelectSeq(matching, FromExpectedToken)
      chosen == IF preferred # <<>> THEN preferred[1] ELSE matching[1]
      received == matching # <<>>
      isToken == received /\ isUSDTContract(chosen.address)
      contractMatches ==
        received /\ toLowerCase(chosen.address) = toLowerCase(USDT_CONTRACT)
  IN [isValid |-> received /\ isToken /\ contractMatches,
      receivedInTargetWallet |-> received,
      isUSDTTransfer |-> isToken,
      contractMatches |-> contractMatches,
      contractAddress |-> IF received THEN chosen.address ELSE Null,
      fromAddress |-> IF received THEN parseTransferLog(chosen).from ELSE Null,
      toAddress |-> IF received THEN parseTransferLog(chosen).to ELSE Null]

validateTransactionForTargetWallet ==
  /\ svc.op = "none"
  /\ svc' = [IdleService EXCEPT !.op = "validateTransactionForTargetWallet",
                                !.pc = "returned",
                                !.result = WalletValidation(env.receipt.logs,
                                                            env.wallet)]
  /\ UNCHANGED <<endpoints, env, probes, cycles, timer, calls>>

InitWallet ==
  \E logs \in Receipts, wallet \in Wallets :
    /\ endpoints = initializeEndpoints(Urls(ServiceEndpoints))
    /\ env = [receipt |-> [logs |-> logs], wallet |-> wallet]
    /\ probes = {}
    /\ cycles = 1
    /\ timer = TRUE
    /\ calls = [c \in {} |-> IdleCall]
    /\ svc = IdleService

NextWallet == validateTransactionForTargetWallet

SpecWallet == InitWallet /\ [][NextWallet]_vars

\* ------------------------------------------------------------------ claims
SomeHealthy(eps) == \E k \in 1..Len(eps) : eps[k].isHealthy

\* C1: in every reachable state of the pool, under any interleaving of
\* executeWithRetry calls, probes and getBestProvider, every endpoint has
\* isHealthy = (failureCount < maxFailures).
C1_HealthyIffBelowThreshold ==
  \A k \in Eps : endpoints[k].isHealthy = (endpoints[k].failureCount < maxFailures)

\* An endpoint past the threshold beside one that has failed and is healthy.
C1_Witness ==
  \E k, j \in Eps :
    /\ endpoints[k].failureCount > maxFailures /\ ~endpoints[k].isHealthy
    /\ endpoints[j].failureCount \in 1..(maxFailures - 1) /\ endpoints[j].isHealthy

\* C2: getBestProvider never returns an endpoint whose isHealthy is false.
\* With a healthy endpoint it changes nothing and returns a healthy endpoint
\* whose latency no healthy endpoint undercuts; with none it resets every
\* endpoint to failureCount 0 and isHealthy and returns the first configured.
C2_ReturnsHealthy ==
  LET best == BestProvider(endpoints)
  IN SomeHealthy(endpoints) =>
       /\ endpoints[best].isHealthy
       /\ \A k \in Eps : endpoints[k].isHealthy =>
                           endpoints[best].latency <= endpoints[k].latency

C2_ResetsWhenNoneHealthy ==
  (getBestProvider /\ ~SomeHealthy(endpoints)) =>
     /\ BestProvider(endpoints) = 1
     /\ \A k \in Eps : /\ endpoints'[k].failureCount = 0
                       /\ endpoints'[k].isHealthy
                       /\ endpoints'[k].latency = endpoints[k].latency
                       /\ endpoints'[k].url = endpoints[k].url

FailureRule(e) ==
  /\ endpoints'[e].failureCount = endpoints[e].failureCount + 1
  /\ endpoints[e].failureCount + 1 < maxFailures => endpoints'[e].isHealthy
  /\ endpoints[e].failureCount + 1 = maxFailures =>
       endpoints[e].isHealthy /\ ~endpoints'[e].isHealthy
  /\ endpoints[e].failureCount + 1 > maxFailures => ~endpoints'[e].isHealthy

SuccessRule(e) ==
  endpoints'[e].failureCount = 0 /\ endpoints'[e].isHealthy

C3_Step ==
  /\ \A c \in Callers, err \in env.errs :
       AttemptFails(c, err) => FailureRule(calls[c].candidates[calls[c].i])
  /\ \A p \in probes : ProbeFails(p) => FailureRule(p.ep)
  /\ \A c \in Callers :
       AttemptSucceeds(c) => SuccessRule(calls[c].candidates[calls[c].i])
  /\ \A p \in probes, m \in UNION Range(env.rtts) :
       ProbeSucceeds(p, m) => SuccessRule(p.ep)

\* C3: every step obeys the failure rule and the success rule.
C3_ThresholdAndRecovery == [][C3_Step]_vars

\* Every probe failed and caller 1 failed everywhere, so endpoint 1 had three
\* failures in a row and was unhealthy when caller 2's attempt on it
\* succeeded; endpoints 2 and 3 still carry their three failures.
C3_Witness ==
  /\ probes = {} /\ cycles = MaxCycles
  /\ \A k \in Eps : endpoints[k].latency = 0
  /\ calls[1].pc = "threw" /\ calls[1].attempts = <<1, 2, 3>>
  /\ calls[2].pc = "returned" /\ calls[2].result = 1
  /\ endpoints[1].failureCount = 0 /\ endpoints[1].isHealthy
  /\ \A k \in Eps \ {1} :
       endpoints[k].failureCount = maxFailures /\ ~endpoints[k].isHealthy

\* ----------------------------------------------- claims on a single call
Lat(e) == endpoints[e].latency

IsPrefix(a, b) == Len(a) <= Len(b) /\ \A k \in 1..Len(a) : a[k] = b[k]

Latencies(seq) == [k \in 1..Len(seq) |-> Lat(seq[k])]

\* The endpoint measured at latency l.
EndpointAt(l) == CHOOSE k \in Eps : Lat(k) = l

\* C4: with a healthy endpoint at call start executeWithRetry attempts healthy
\* endpoints in ascending order of latency and stops at maxRetries; with
\* maxRetries = 3 and five healthy endpoints of latencies 80, 10, 40, 20, 60,
\* the 10 and 20 endpoints rejecting and the 40 endpoint resolving, the
\* attempts are the 10, 20 and 40 endpoints in that order and never 60 or 80.
C4_Ascending(call) ==
  Len(call.healthy) > 0 =>
    /\ Len(call.attempts) <= call.maxRetries
    /\ \A a \in 1..Len(call.attempts) :
         /\ call.attempts[a] \in Range(call.healthy)
         /\ \A b \in 1..Len(call.attempts) :
              a < b => /\ Lat(call.attempts[a]) <= Lat(call.attempts[b])
                       /\ call.attempts[a] # call.attempts[b]
         /\ \A h \in Range(call.healthy) \ Range(call.attempts) :
              Lat(call.attempts[a]) <= Lat(h)

C4_InScenario(call) ==
  /\ call.pc # "idle"
  /\ call.maxRetries = 3
  /\ Len(call.healthy) = 5
  /\ Latencies([k \in 1..5 |-> k]) = ScenarioLatencies
  /\ Range(call.healthy) = 1..5
  /\ EndpointAt(10) \notin call.okOn
  /\ EndpointAt(20) \notin call.okOn
  /\ EndpointAt(40) \in call.okOn

\* C4: ascending order for every call, and the scenario's attempts.
C4_AttemptOrder ==
  \A c \in Callers :
    /\ C4_Ascending(calls[c])
    /\ C4_InScenario(calls[c]) =>
         /\ IsPrefix(Latencies(calls[c].attempts), <<10, 20, 40>>)
         /\ calls[c].pc # "threw"
         /\ calls[c].pc = "returned" =>
              Latencies(calls[c].attempts) = <<10, 20, 40>>

C4_Witness ==
  /\ C4_InScenario(calls[1])
  /\ calls[1].pc = "returned"
  /\ Latencies(calls[1].attempts) = <<10, 20, 40>>

\* C5 as claimed: whenever an endpoint of the call's candidate list would
\* resolve the operation, executeWithRetry returns a result instead of failing.
C5_AnyCandidateSuffices ==
  \A c \in Callers :
    calls[c].pc = "threw" => Range(calls[c].candidates) \cap calls[c].okOn = {}

\* C5 amended: whenever one of the first min(candidates, maxRetries)
\* candidates would resolve the operation, executeWithRetry returns a result
\* instead of failing, and the result is one the operation resolved with.
C5_AttemptedCandidateSuffices ==
  \A c \in Callers :
    /\ calls[c].pc = "threw" =>
         \A k \in 1..Len(calls[c].candidates) :
           k <= calls[c].maxRetries => calls[c].candidates[k] \notin calls[c].okOn
    /\ calls[c].pc = "returned" => calls[c].result \in calls[c].okOn

\* The first candidate rejected and a later one answered the caller.
C5_Witness ==
  /\ calls[1].pc = "returned"
  /\ Len(calls[1].attempts) >= 2
  /\ calls[1].attempts[1] \notin calls[1].okOn

\* The attempt of caller c that rejects with err is the last of its call.
LastAttemptFails(c, err) == AttemptFails(c, err) /\ calls'[c].pc = "threw"

C6_Step ==
  \A c \in Callers, err \in env.errs :
    LastAttemptFails(c, err) =>
      /\ IsPrefix(AllFailedPrefix, calls'[c].error)
      /\ IF err.type = "Error" /\ err.text # <<>>
         THEN calls'[c].error = AllFailedPrefix \o err.text
         ELSE calls'[c].error = AllFailedPrefix \o UnknownError

C7_Returned(call) ==
  call.pc = "returned" =>
    LET n == Len(call.attempts)
    IN /\ n >= 1
       /\ call.result = call.attempts[n]
       /\ call.result \in call.okOn
       /\ \A k \in 1..(n - 1) : call.attempts[k] \notin call.okOn
       /\ call.error = <<>>

C7_Step ==
  \A c \in Callers :
    /\ AttemptSucceeds(c) => /\ calls'[c].attempts = calls[c].attempts
                             /\ calls'[c].pc = "returned"
    /\ calls[c].pc = "returned" => calls'[c] = calls[c]

\* C7: a returned call ends with the attempt that resolved, and returning
\* invokes nothing.
C7_ReturnsFirstSuccess ==
  [](\A c \in Callers : C7_Returned(calls[c])) /\ [][C7_Step]_vars

\* Two rejections, then the third candidate answered.
C7_Witness ==
  /\ calls[1].pc = "returned"
  /\ Len(calls[1].attempts) = 3
  /\ calls[1].lastError # NoError

\* C8: one call invokes the operation at most min(candidates, maxRetries)
\* times, at most 3 with the default, and each rejected attempt adds exactly
\* one to that endpoint's failureCount, touches no other endpoint, and only
\* then is the next candidate invoked.
C8_AtMost(call) ==
  /\ Len(call.attempts) <= Len(call.candidates)
  /\ Len(call.attempts) <= call.maxRetries
  /\ call.maxRetries = DefaultMaxRetries => Len(call.attempts) <= 3

C8_Step ==
  \A c \in Callers, err \in env.errs :
    AttemptFails(c, err) =>
      LET e == calls[c].candidates[calls[c].i]
      IN /\ endpoints'[e].failureCount = endpoints[e].failureCount + 1
         /\ \A k \in Eps \ {e} : endpoints'[k] = endpoints[k]
         /\ \/ /\ calls'[c].pc = "threw"
               /\ calls'[c].attempts = calls[c].attempts
            \/ /\ calls'[c].pc = "await"
               /\ Len(calls'[c].attempts) = Len(calls[c].attempts) + 1
               /\ IsPrefix(calls[c].attempts, calls'[c].attempts)

\* C8: the attempts are bounded in every state and every rejection adds one.
C8_BoundedAttempts ==
  [](\A c \in Callers : C8_AtMost(calls[c])) /\ [][C8_Step]_vars

\* Five candidates, and the call gave up after the third.
C8_Witness ==
  /\ calls[1].pc = "threw"
  /\ Len(calls[1].candidates) = 5
  /\ Len(calls[1].attempts) = 3

\* C9: with no healthy endpoint at call start executeWithRetry attempts the
\* first maxRetries configured endpoints in configured order, stopping at
\* the first that resolves, and no endpoint configured after them.
FirstConfigured(n) == [k \in 1..Min(n, Len(endpoints)) |-> k]

C9_FirstConfiguredInOrder ==
  \A c \in Callers :
    (calls[c].pc # "idle" /\ calls[c].healthy = <<>>) =>
      /\ IsPrefix(calls[c].attempts, FirstConfigured(calls[c].maxRetries))
      /\ calls[c].pc = "threw" =>
           calls[c].attempts = FirstConfigured(calls[c].maxRetries)

\* No endpoint was healthy, the first three were attempted and rejected.
C9_Witness ==
  /\ calls[1].pc = "threw"
  /\ calls[1].healthy = <<>>
  /\ calls[1].attempts = <<1, 2, 3>>
  /\ Len(endpoints) > 3
  /\ \A k \in Eps : ~endpoints[k].isHealthy

\* ------------------------------------------- claims on concurrent updates
\* Caller c's operation was rejected by endpoint e.
FailedOn(c, e) ==
  \E k \in 1..Len(calls[c].attempts) :
    /\ calls[c].attempts[k] = e
    /\ k < Len(calls[c].attempts) \/ calls[c].pc = "threw"

SucceededOn(c, e) == calls[c].pc = "returned" /\ calls[c].result = e

ProbesResolved(e) == cycles - Cardinality({p \in probes : p.ep = e})

\* The rejections endpoint e can have seen: the callers it rejected and its
\* health checks no longer in flight.  A health check that succeeds sets
\* latency to a measured round trip, never 0 in this environment: with latency
\* 0 every health check no longer in flight was rejected.
RejectionsOf(e) ==
  Cardinality({c \in Callers : FailedOn(c, e)}) + ProbesResolved(e)

\* C10: operations in flight on one endpoint at the same time lose no update.
\* When nothing resolved on the endpoint its failureCount is the number of
\* rejections, whatever their interleaving (two concurrent rejections leave
\* it two higher); with a success among them it is the number of rejections
\* after the success in one serial order of the operations.
C10_NoLostUpdate ==
  \A e \in Eps :
    /\ endpoints[e].isHealthy = (endpoints[e].failureCount < maxFailures)
    /\ (Lat(e) = 0 /\ \A c \in Callers : ~SucceededOn(c, e)) =>
         endpoints[e].failureCount = RejectionsOf(e)
    /\ (Lat(e) = 0 /\ \E c \in Callers : SucceededOn(c, e)) =>
         endpoints[e].failureCount <= RejectionsOf(e)
    /\ Lat(e) # 0 =>
         endpoints[e].failureCount <= RejectionsOf(e) - 1

\* Both calls were in flight on endpoint 1 together with its first health
\* check; both were rejected while the health check is still in flight.
C10_Witness ==
  /\ [cycle |-> 1, ep |-> 1] \in probes
  /\ cycles = 1
  /\ \A c \in Callers : FailedOn(c, 1)
  /\ endpoints[1].failureCount = 2

\* C11: checkAllEndpoints issues a health check to every endpoint in each
\* cycle, the constructor's and every tick's; a health check that failed or
\* is still in flight leaves every other health check in flight free to
\* complete either way, and a completion updates its own endpoint by
\* the probe rule and nothing else.
C11_Issued ==
  cycles' # cycles => \A k \in Eps : [cycle |-> cycles', ep |-> k] \in probes'

C11_Independent ==
  \A q \in probes :
    /\ ENABLED ProbeFails(q)
    /\ \A m \in env.rtts[q.ep] : ENABLED ProbeSucceeds(q, m)

C11_Updates ==
  \A q \in probes :
    q \notin probes' =>
      /\ probes' = probes \ {q}
      /\ endpoints'[q.ep] \in
           {ProbeFailure(endpoints[q.ep])} \cup
           {ProbeSuccess(endpoints[q.ep], m) : m \in env.rtts[q.ep]}
      /\ \A k \in Eps \ {q.ep} : endpoints'[k] = endpoints[k]

\* C11: all four parts, over every behaviour.
C11_ProbeAll ==
  /\ \A k \in Eps : [cycle |-> 1, ep |-> k] \in probes
  /\ []C11_Independent
  /\ [][C11_Issued /\ C11_Updates]_vars

\* The first health check of endpoint 1 failed and the one of endpoint 2 is
\* still in flight when the second cycle has started; endpoint 3 was measured
\* in both cycles.
C11_Witness ==
  /\ cycles = 2
  /\ [cycle |-> 1, ep |-> 1] \notin probes
  /\ [cycle |-> 2, ep |-> 1] \in probes
  /\ endpoints[1].failureCount = 1
  /\ [cycle |-> 1, ep |-> 2] \in probes
  /\ [cycle |-> 1, ep |-> 3] \notin probes
  /\ [cycle |-> 2, ep |-> 3] \notin probes
  /\ endpoints[3].latency # 0
  /\ endpoints[3].failureCount = 0

\* C12: health-check cycles never overlap: a cycle starts only when no health
\* check of an earlier cycle is still in flight.  The interval callback calls
\* checkAllEndpoints unconditionally, so this does not hold.
C12_NoOverlap == [][cycles' # cycles => probes = {}]_vars

\* C13: the constructor starts the first health-check cycle at once and sets
\* the timer; while the timer is set the interval callback can fire, and
\* every firing starts exactly one further cycle, a health check for every
\* endpoint; no cycle starts in any other way.
C13_Immediately ==
  /\ timer = TRUE
  /\ cycles = 1
  /\ probes = CycleProbes(endpoints, 1)

C13_TickFires == (timer /\ cycles < MaxCycles) => ENABLED Tick

C13_OneCyclePerTick ==
  cycles' # cycles =>
    /\ timer
    /\ cycles' = cycles + 1
    /\ probes' = probes \cup CycleProbes(endpoints, cycles + 1)
    /\ probes \cap CycleProbes(endpoints, cycles + 1) = {}

\* C13: the three parts, over every behaviour.
C13_ImmediateThenPeriodic ==
  /\ C13_Immediately
  /\ []C13_TickFires
  /\ [][C13_OneCyclePerTick]_vars

\* The first cycle has completed and a tick has started the last one, whose
\* health checks are all in flight; the pool is not shut down.
C13_Witness ==
  /\ timer
  /\ cycles = MaxCycles
  /\ probes = CycleProbes(endpoints, MaxCycles)
  /\ \E k \in Eps : endpoints[k].latency # 0
  /\ \E k \in Eps : endpoints[k].failureCount > 0

\* C14: once the timer is cleared it stays cleared and no cycle starts: the
\* health checks in flight can only complete.  destroy can be called in
\* every state, and called on a pool already shut down it changes nothing.
C14_Callable == ENABLED destroy

C14_StaysStopped ==
  timer = FALSE =>
    /\ timer' = FALSE
    /\ cycles' = cycles
    /\ probes' \subseteq probes

C14_SecondCallNoEffect == (timer = FALSE /\ destroy) => UNCHANGED vars

C14_FirstCallClears == destroy => (timer' = FALSE /\ cycles' = cycles)

\* C14: the four parts, over every behaviour.
C14_ShutdownIdempotent ==
  /\ []C14_Callable
  /\ [][C14_StaysStopped /\ C14_SecondCallNoEffect /\ C14_FirstCallClears]_vars

\* The pool was shut down before the first tick and the constructor's health
\* checks have all completed since: no second cycle was started.
C14_Witness ==
  /\ timer = FALSE
  /\ cycles = 1
  /\ probes = {}
  /\ \E k \in Eps : endpoints[k].latency # 0

\* C15: the pool never holds two endpoints with the same address, so that
\* getStats().total is the number of distinct configured addresses.  The
\* constructor keeps every entry of the list, so this does not hold.
C15_DistinctAddresses ==
  /\ \A j, k \in Eps : endpoints[j].url = endpoints[k].url => j = k
  /\ getStats(endpoints).total = Cardinality({ endpoints[k].url : k \in Eps })

\* C16: getStats changes nothing of the pool, and what it returns describes
\* the endpoints at that moment: total their number, healthy the number of
\* those with isHealthy true, and entry k the url, isHealthy, latency and
\* failureCount of the k-th configured endpoint.
C16_Snapshot ==
  (svc' # svc /\ svc'.op = "getRPCStats") =>
    /\ UNCHANGED <<endpoints, env, probes, cycles, timer, calls>>
    /\ svc'.result.total = Len(endpoints)
    /\ svc'.result.healthy = Cardinality({ k \in Eps : endpoints[k].isHealthy })
    /\ Len(svc'.result.endpoints) = Len(endpoints)
    /\ \A k \in Eps :
         /\ svc'.result.endpoints[k].url = endpoints[k].url
         /\ svc'.result.endpoints[k].isHealthy = endpoints[k].isHealthy
         /\ svc'.result.endpoints[k].latency = endpoints[k].latency
         /\ svc'.result.endpoints[k].failureCount = endpoints[k].failureCount

\* The number of endpoints is fixed, and what was returned is a copy: later
\* changes of the endpoints do not show in it.
C16_Fixed ==
  /\ Len(endpoints') = Len(endpoints)
  /\ endpoints' # endpoints => svc' = svc

\* C16: both parts, for every step.
C16_ReadOnlySnapshot == [][C16_Snapshot /\ C16_Fixed]_vars

\* Statistics taken with some but not all endpoints healthy, in an order that
\* is not the order of latency, and the pool has changed since.
C16_Witness ==
  /\ svc.op = "getRPCStats"
  /\ svc.result.healthy > 0
  /\ svc.result.healthy < svc.result.total
  /\ svc.result.endpoints[1].latency > svc.result.endpoints[2].latency
  /\ svc.result.endpoints[1].isHealthy
  /\ svc.result.endpoints[2].isHealthy
  /\ svc.result # getStats(endpoints)

\* The provider of endpoint e answers the lookup of pool call c with null.
AnsweredAbsent(c, e) ==
  IF c = "lookup"
  THEN /\ env.view[e].tx # "reject"
       /\ env.view[e].receipt # "reject"
       /\ env.view[e].tx = "absent" \/ env.view[e].receipt = "absent"
  ELSE env.view[e].block = "absent"

NotFoundMessage(c) == IF c = "lookup" THEN TransactionNotFound ELSE BlockNotFound

\* C17: when the endpoint attempted first answers the transaction and receipt
\* lookup or the block lookup with null, executeWithRetry invokes the lookup
\* on no other endpoint and returns; the endpoint's failureCount is 0 and it
\* is healthy; getDetailsByHash then fails with the not-found message,
\* whatever the other endpoints would have answered.
C17_AbsenceNotRetried ==
  \A c \in {"lookup", "block"} :
    LET call == calls[c]
        first == call.attempts[1]
    IN (call.attempts # <<>> /\ AnsweredAbsent(c, first)) =>
         /\ call.attempts = <<first>>
         /\ call.pc \in {"await", "returned"}
         /\ call.pc = "returned" =>
              /\ call.result = first
              /\ endpoints[first].failureCount = 0
              /\ endpoints[first].isHealthy
              /\ svc.pc \in {c, "threw"}
              /\ svc.pc = "threw" => svc.error = WrappedMessage(NotFoundMessage(c))

\* The fastest endpoint answered the transaction lookup with null while the
\* other endpoint has the transaction: one attempt, no failure counted, and
\* getDetailsByHash failed with "Transaction not found".
C17_Witness ==
  /\ calls["lookup"].attempts = <<2>>
  /\ env.view[2].tx = "absent"
  /\ env.view[1] = Profile("present", "present", "present", "present")
  /\ calls["lookup"].pc = "returned"
  /\ endpoints[2].failureCount = 0
  /\ svc.pc = "threw"
  /\ svc.error = WrappedMessage(TransactionNotFound)

\* C18: getDetailsByHash returns a result only if the endpoint that answered
\* the pair had both the transaction and the receipt and the endpoint that
\* answered the block lookup had the block; once it has gone past a null
\* transaction or receipt it has thrown the error saying "Transaction not
\* found", past a null block the one saying "block timestamp could not be
\* found".
C18_NoResultWhenAbsent ==
  LET lookup == calls["lookup"]
      block == calls["block"]
  IN svc.op = "getDetailsByHash" =>
       /\ svc.pc = "returned" =>
            /\ lookup.pc = "returned"
            /\ env.view[lookup.result].tx = "present"
            /\ env.view[lookup.result].receipt = "present"
            /\ block.pc = "returned"
            /\ env.view[block.result].block = "present"
       /\ (/\ lookup.pc = "returned"
           /\ svc.pc # "lookup"
           /\ \/ env.view[lookup.result].tx = "absent"
              \/ env.view[lookup.result].receipt = "absent") =>
            /\ svc.pc = "threw"
            /\ svc.error = DetailsFailedPrefix \o TransactionNotFound
            /\ block.pc = "idle"
       /\ (/\ block.pc = "returned"
           /\ svc.pc # "block"
           /\ env.view[block.result].block = "absent") =>
            /\ svc.pc = "threw"
            /\ svc.error = DetailsFailedPrefix \o BlockNotFound

\* The first endpoint tried rejected, the next one had the transaction but
\* not the receipt: getDetailsByHash failed with "Transaction not found" and
\* never asked for the block.
C18_Witness ==
  /\ svc.op = "getDetailsByHash"
  /\ svc.pc = "threw"
  /\ calls["lookup"].attempts = <<2, 1>>
  /\ env.view[1].tx = "present"
  /\ env.view[1].receipt = "absent"
  /\ IsSubstring(TransactionNotFound, svc.error)
  /\ calls["block"].pc = "idle"

\* The digits up from the first one that is not "0" ("0" for zero).
StripLeadingZeros(digits) ==
  LET nonzero == { k \in 1..Len(digits) : digits[k] # "0" }
  IN IF nonzero = {} THEN <<"0">>
     ELSE SubSeq(digits, CHOOSE k \in nonzero : \A j \in nonzero : k <= j,
                 Len(digits))

\* The quantity a decimal amount stands for at the given number of decimals;
\* the amount may end in an exponent ("3.7e-17").
ToSmallestUnit(amount, decimals) ==
  LET marks == { k \in 1..Len(amount) : amount[k] = "e" }
      mark == IF marks = {} THEN Len(amount) + 1 ELSE CHOOSE k \in marks : TRUE
      mantissa == SubSeq(amount, 1, mark - 1)
      shift == IF marks = {} THEN 0
               ELSE QuantityValue(SubSeq(amount, mark + 2, Len(amount)))
      dots == { k \in 1..Len(mantissa) : mantissa[k] = "." }
      dot == IF dots = {} THEN Len(mantissa) + 1 ELSE CHOOSE k \in dots : TRUE
      whole == SubSeq(mantissa, 1, dot - 1)
      fraction == SubSeq(mantissa, dot + 1, Len(mantissa))
  IN StripLeadingZeros(whole \o fraction
                         \o Zeros(decimals - shift - Len(fraction)))

\* C19: every result getDetailsByHash returns for a transaction whose data is
\* "0x" has isUSDT false, tokenMismatch true and contract null, whatever the
\* destination; its amount is the decimal form of value / 10^18 (with a
\* decimal point, "1.5" for 1500000000000000000), and the token details were
\* never asked for.
C19_NativeTransfer ==
  (svc.op = "getDetailsByHash" /\ svc.pc = "returned" /\ env.tx.data = <<"0x">>) =>
    /\ svc.result.isUSDT = FALSE
    /\ svc.result.tokenMismatch = TRUE
    /\ svc.result.contract = Null
    /\ calls["token"].pc = "idle"
    /\ Cardinality({ k \in 1..Len(svc.result.amount) : svc.result.amount[k] = "." }) = 1
    /\ ToSmallestUnit(svc.result.amount, 18) = env.tx.value
    /\ env.tx.value = <<"1", "5">> \o Zeros(17) =>
         svc.result.amount = <<"1", ".", "5">>

\* 1500000000000000000 sent to the expected token address with no data:
\* reported as 1.5 with a token mismatch.
C19_Witness ==
  /\ svc.op = "getDetailsByHash"
  /\ svc.pc = "returned"
  /\ env.tx.data = <<"0x">>
  /\ toLowerCase(env.tx.to) = toLowerCase(USDT_CONTRACT)
  /\ svc.result.amount = <<"1", ".", "5">>
  /\ svc.result.tokenMismatch

\* getDetailsByHash returned for a call of the expected token (its address
\* in any letter case) whose receipt holds exactly one Transfer event.
ExpectedTokenTransfer ==
  /\ svc.op = "getDetailsByHash"
  /\ svc.pc = "returned"
  /\ env.tx.to # Null
  /\ env.tx.data # <<"0x">>
  /\ toLowerCase(env.tx.to) = toLowerCase(USDT_CONTRACT)
  /\ Len(SelectSeq(env.receipt.logs, HasSignature)) = 1
  /\ parseTransferLog(SelectSeq(env.receipt.logs, HasSignature)[1]) # NoTransfer

\* The value of the Transfer event of the receipt, as a quantity.
RawValue == BigIntToString(SelectSeq(env.receipt.logs, HasSignature)[1].data)

ReportsExpectedToken ==
  /\ svc.result.isUSDT = TRUE
  /\ svc.result.tokenMismatch = FALSE
  /\ ToSmallestUnit(svc.result.amount, QuantityValue(env.token.decimals)) = RawValue
  /\ RawValue = <<"1", "5">> \o Zeros(17) => svc.result.amount = <<"1", ".", "5">>

\* C20: for a call of the expected token, its address compared without
\* regard to case, with one Transfer event in the receipt, the result has
\* isUSDT true, tokenMismatch false and amount = raw value / 10^decimals.
\* This does not hold when the token details could not be fetched.
C20_ExpectedToken == ExpectedTokenTransfer => ReportsExpectedToken

\* What holds: the same whenever the executeWithRetry call of getTokenDetails
\* returned.
C20_WhenTokenDetailsFetched ==
  (ExpectedTokenTransfer /\ calls["token"].pc = "returned") => ReportsExpectedToken

\* A transfer of 1500000000000000000 of the expected token, its address
\* written in checksum case, reported as 1.5 of the expected token.
C20_Witness ==
  /\ ExpectedTokenTransfer
  /\ env.tx.to # USDT_CONTRACT
  /\ calls["token"].pc = "returned"
  /\ svc.result.isUSDT
  /\ svc.result.amount = <<"1", ".", "5">>

\* validateContractIsUSDT has returned.
ContractAnswered == svc.op = "validateContractIsUSDT" /\ svc.pc = "returned"

\* The address asked about is the expected token's, whatever the case of its
\* letters.
AsksExpectedToken == toLowerCase(env.address) = toLowerCase(USDT_CONTRACT)

\* C21: validateContractIsUSDT returns isValid = true for the expected
\* token's address in any letter case, isValid = false and tokenMismatch =
\* true for any other address whose metadata resolved, and isValid =
\* !tokenMismatch in every result.  The first part does not hold when the
\* metadata of the expected token could not be fetched.
C21_ExpectedIsValid ==
  ContractAnswered =>
    /\ AsksExpectedToken => svc.result.isValid
    /\ (~AsksExpectedToken /\ calls["token"].pc = "returned") =>
         (~svc.result.isValid /\ svc.result.tokenMismatch)
    /\ svc.result.isValid = ~svc.result.tokenMismatch

\* What holds: isValid = true for the expected token's address whenever the
\* executeWithRetry call of getTokenDetails returned, isValid = false and
\* tokenMismatch = true for every other address, isValid = !tokenMismatch in
\* every result.
C21_ExpectedIsValidWhenResolved ==
  ContractAnswered =>
    /\ (AsksExpectedToken /\ calls["token"].pc = "returned") =>
         (svc.result.isValid /\ svc.result.isUSDT)
    /\ ~AsksExpectedToken => (~svc.result.isValid /\ svc.result.tokenMismatch)
    /\ svc.result.isValid = ~svc.result.tokenMismatch

\* The expected token's address written in checksum case was found valid,
\* after the fastest endpoint had rejected the metadata calls.
C21_Witness ==
  /\ ContractAnswered
  /\ env.address = ChecksumCase(USDT_CONTRACT)
  /\ env.address # USDT_CONTRACT
  /\ Len(calls["token"].attempts) = 2
  /\ svc.result.isValid

\* C22: validateContractIsUSDT never throws; when symbol() or decimals()
\* rejected on every attempted endpoint it returns isValid = false, isUSDT =
\* false, tokenMismatch = true and no details, for every address, the
\* expected token's included.
C22_FailureDowngraded ==
  svc.op = "validateContractIsUSDT" =>
    /\ svc.pc # "threw"
    /\ (svc.pc = "returned" /\ calls["token"].pc = "threw") =>
         svc.result = [isValid |-> FALSE, isUSDT |-> FALSE,
                       tokenMismatch |-> TRUE, details |-> NoTokenDetails]

\* The metadata calls of the expected token's address were rejected by three
\* endpoints: validateContractIsUSDT returned "not valid".
C22_Witness ==
  /\ ContractAnswered
  /\ AsksExpectedToken
  /\ calls["token"].pc = "threw"
  /\ Len(calls["token"].attempts) = DefaultMaxRetries
  /\ ~svc.result.isValid
  /\ svc.result.tokenMismatch

\* C23: transactionExists never throws.  It returns true exactly when its
\* executeWithRetry call returned a transaction that is not null: the last
\* endpoint attempted had the transaction and every endpoint attempted before
\* it rejected.  It returns false both when an attempted endpoint answered
\* null (no further endpoint is asked) and when every attempted endpoint
\* rejected.
C23_ExistsIffFound ==
  LET call == calls["exists"]
      last == call.attempts[Len(call.attempts)]
  IN svc.op = "transactionExists" =>
       /\ svc.pc # "threw"
       /\ \A k \in 1..(Len(call.attempts) - 1) :
            env.view[call.attempts[k]].tx = "reject"
       /\ svc.pc = "returned" =>
            /\ svc.result =
                 (call.pc = "returned" /\ env.view[call.result].tx = "present")
            /\ svc.result = (env.view[last].tx = "present")
            /\ env.view[last].tx = "absent" => (~svc.result /\ call.pc = "returned")
            /\ env.view[last].tx = "reject" => (~svc.result /\ call.pc = "threw")

\* Three endpoints rejected the lookup and transactionExists returned false,
\* while the endpoint that was not attempted has the transaction.
C23_Witness ==
  /\ svc.op = "transactionExists"
  /\ svc.pc = "returned"
  /\ svc.result = FALSE
  /\ calls["exists"].pc = "threw"
  /\ Len(calls["exists"].attempts) = DefaultMaxRetries
  /\ \E e \in Eps : /\ env.view[e].tx = "present"
                    /\ \A k \in 1..DefaultMaxRetries : calls["exists"].attempts[k] # e

\* isConnected has returned.
ConnectedReturned == svc.op = "isConnected" /\ svc.pc = "returned"

\* C24 as claimed: isConnected never throws and returns true exactly when
\* getBlockNumber would resolve on some endpoint of the pool.
C24_TrueIfAnySucceeds ==
  svc.op = "isConnected" =>
    /\ svc.pc # "threw"
    /\ svc.pc = "returned" =>
         svc.result = (\E e \in Eps : env.view[e].head # "reject")

\* C24 amended: isConnected never throws and returns true exactly when
\* getBlockNumber resolves on one of the first min(candidates, 3) candidates
\* of its executeWithRetry call, and then on the first of them that does not
\* reject; a true answer always means that some endpoint answered.
C24_TrueIfAttemptedSucceeds ==
  LET call == calls["head"]
      tried == { call.candidates[k] : k \in 1..Min(Len(call.candidates), DefaultMaxRetries) }
  IN svc.op = "isConnected" =>
       /\ svc.pc # "threw"
       /\ svc.pc = "returned" =>
            /\ svc.result = (\E e \in tried : env.view[e].head # "reject")
            /\ svc.result => env.view[call.result].head # "reject"
            /\ svc.result => \E e \in Eps : env.view[e].head # "reject"
            /\ ~svc.result => Range(call.attempts) = tried

\* isConnected returned true after two endpoints had rejected the query.
C24_Witness ==
  /\ ConnectedReturned
  /\ svc.result = TRUE
  /\ Len(calls["head"].attempts) = DefaultMaxRetries
  /\ \A k \in 1..(DefaultMaxRetries - 1) :
       env.view[calls["head"].attempts[k]].head = "reject"

\* C25: getCurrentBlockNumber returns the block number reported by the
\* endpoint that answered its executeWithRetry call; when every attempted
\* endpoint rejected it throws "Failed to fetch block number" and returns no
\* value.
C25_NumberOrError ==
  LET call == calls["head"]
  IN svc.op = "getCurrentBlockNumber" =>
       /\ svc.pc = "returned" =>
            /\ call.pc = "returned"
            /\ env.view[call.result].head # "reject"
            /\ svc.result = HeightAt(call.result)
       /\ svc.pc = "threw" =>
            /\ call.pc = "threw"
            /\ \A k \in 1..Len(call.attempts) :
                 env.view[call.attempts[k]].head = "reject"
            /\ svc.error = BlockNumberFailed
            /\ svc.result = IdleService.result
       /\ call.pc = "threw" => svc.pc \in {"head", "threw"}
       /\ call.pc = "returned" => svc.pc \in {"head", "returned"}

\* Three endpoints rejected getBlockNumber: getCurrentBlockNumber threw.
C25_Witness ==
  /\ svc.op = "getCurrentBlockNumber"
  /\ svc.pc = "threw"
  /\ Len(calls["head"].attempts) = DefaultMaxRetries
  /\ svc.error = BlockNumberFailed

\* parseTransferLog was applied to the log.
Decoded == svc.op \in {"parseTransferLog", "scale"}

\* The first topic of the log is the Transfer signature.
SignatureMatches ==
  Len(env.log.topics) > 0 /\ env.log.topics[1] = TRANSFER_EVENT_SIG_HASH

\* C26: parseTransferLog applied to a log whose first topic is not the
\* Transfer signature (or that has no topic) returns null and neither throws
\* nor reports an error, whatever its other topics and data.
C26_NoEventWithoutSignature ==
  (Decoded /\ ~SignatureMatches) =>
    /\ svc.pc = "returned"
    /\ svc.error = <<>>
    /\ svc.result.transfer = NoTransfer
    /\ ~svc.result.logged

\* A log of another event with two address topics and a value of 10^18 as
\* data decoded to "no event".
C26_Witness ==
  /\ svc.op = "parseTransferLog"
  /\ env.log.topics = <<OtherSignature, TopicOf(Address("a")), TopicOf(USDT_CONTRACT)>>
  /\ env.log.data = OneEtherData
  /\ svc.result.transfer = NoTransfer

\* The log carries the Transfer signature but has fewer than three topics, or
\* data that is not a number.
Malformed ==
  /\ SignatureMatches
  /\ Len(env.log.topics) < 3 \/ BigIntToString(env.log.data) = Null

\* C27: parseTransferLog applied to a malformed log that carries the Transfer
\* signature ends in an outcome its caller can tell from "no transfer event":
\* it throws, or returns something else than the null returned for a log
\* without the signature.
C27_DecodeErrorDistinct ==
  (Decoded /\ Malformed) =>
    \/ svc.pc = "threw"
    \/ svc.result.transfer # NoTransfer

\* What holds: the malformed log gives the same null, and the error is
\* written to the console only.
C27_DecodeErrorLoggedOnly ==
  Decoded =>
    /\ Malformed => (svc.pc = "returned" /\ svc.result.transfer = NoTransfer
                     /\ svc.result.logged)
    /\ ~SignatureMatches => ~svc.result.logged

\* A log with the Transfer signature, two address topics and empty data (the
\* form of a Transfer event whose value is indexed) decoded to null.
C27_Witness ==
  /\ svc.op = "parseTransferLog"
  /\ env.log.topics = <<TRANSFER_EVENT_SIG_HASH, TopicOf(Address("a")),
                        TopicOf(USDT_CONTRACT)>>
  /\ env.log.data = <<"0x">>
  /\ svc.result.transfer = NoTransfer
  /\ svc.result.logged

\* The topic is a 32-byte field of hex digits.
IsWord(topic) ==
  /\ Len(topic) = 65
  /\ topic[1] = "0x"
  /\ \A k \in 2..65 : IsHexChar(topic[k])

\* The low 20 bytes of a 32-byte topic, as a lower-case address.
LowTwentyBytes(topic) == <<"0x">> \o toLowerCase(SubSeq(topic, 26, 65))

OneEther == <<"1">> \o Zeros(18)

\* C28: parseTransferLog applied to a log with the Transfer signature, two
\* 32-byte topics after it and data that is a hex number returns the event:
\* from is the low 20 bytes of the second topic, to the low 20 bytes of the
\* third (as addresses, compared without regard to case), value the unsigned
\* integer the data spells; data 0x0de0b6b3a7640000 gives the value
\* 1000000000000000000, and scaled with 18 decimals the amount "1".
C28_DecodesTransfer ==
  (Decoded /\ SignatureMatches) =>
    /\ (/\ Len(env.log.topics) >= 3
        /\ IsWord(env.log.topics[2])
        /\ IsWord(env.log.topics[3])
        /\ BigIntToString(env.log.data) # Null) => svc.result.transfer # NoTransfer
    /\ svc.result.transfer # NoTransfer =>
         /\ IsWord(env.log.topics[2])
         /\ IsWord(env.log.topics[3])
         /\ toLowerCase(svc.result.transfer.from) = LowTwentyBytes(env.log.topics[2])
         /\ toLowerCase(svc.result.transfer.to) = LowTwentyBytes(env.log.topics[3])
         /\ env.log.data \in {OneEtherData, OneEtherWord} =>
              svc.result.transfer.value = OneEther
         /\ env.log.data = OneAndAHalfEtherData =>
              svc.result.transfer.value = OneAndAHalfEther
         /\ env.log.data = <<"0x", "2", "5">> =>
              svc.result.transfer.value = <<"3", "7">>
         /\ svc.op = "scale" =>
              /\ ToSmallestUnit(svc.result.amount, QuantityValue(env.decimals))
                   = svc.result.transfer.value
              /\ (svc.result.transfer.value = OneEther /\ env.decimals = <<"1", "8">>) =>
                   svc.result.amount = <<"1">>

\* The Transfer event of 0x0de0b6b3a7640000 from the address in the low 20
\* bytes of a topic whose high bytes are not zero to the expected token's
\* address, scaled with 18 decimals: the amount is "1".
C28_Witness ==
  /\ svc.op = "scale"
  /\ env.log.topics = <<TRANSFER_EVENT_SIG_HASH, DirtyTopic, TopicOf(USDT_CONTRACT)>>
  /\ env.log.data = OneEtherData
  /\ env.decimals = <<"1", "8">>
  /\ toLowerCase(svc.result.transfer.from) = Address("b")
  /\ toLowerCase(svc.result.transfer.to) = USDT_CONTRACT
  /\ svc.result.transfer.value = OneEther
  /\ svc.result.amount = <<"1">>

\* parseTransferLog decodes the log.
Decodable(log) == parseTransferLog(log) # NoTransfer

\* getDetailsByHash returned for a contract interaction.
ContractInteractionReturned ==
  /\ svc.op = "getDetailsByHash"
  /\ svc.pc = "returned"
  /\ IsContractInteraction(env.tx)

\* The reported sender and receiver are those of the log, or of the
\* transaction when there is no log.
ReportsAddressesOf(logs) ==
  IF logs = <<>>
  THEN /\ svc.result.fromWalletAddress = env.tx.from
       /\ svc.result.toWalletAddress = env.tx.to
  ELSE /\ svc.result.fromWalletAddress = parseTransferLog(logs[1]).from
       /\ svc.result.toWalletAddress = parseTransferLog(logs[1]).to

\* C30: for a contract interaction getDetailsByHash reports the sender and
\* receiver of the first log of the receipt that parseTransferLog decodes,
\* also when a log with the Transfer signature that cannot be decoded comes
\* before it, and those of the transaction when no log decodes.
C30_FirstDecodable ==
  ContractInteractionReturned =>
    ReportsAddressesOf(SelectSeq(env.receipt.logs, Decodable))

\* What holds: only the first log with the Transfer signature is looked at;
\* its sender and receiver are reported when it decodes, those of the
\* transaction when it does not or when no log has the signature.
C30_FirstWithSignature ==
  LET found == SelectSeq(env.receipt.logs, HasSignature)
  IN ContractInteractionReturned =>
       ReportsAddressesOf(IF found # <<>> /\ Decodable(found[1])
                          THEN <<found[1]>> ELSE <<>>)

\* The receipt holds another event and then a Transfer event: the sender and
\* receiver reported are those of the Transfer event.
C30_Witness ==
  /\ ContractInteractionReturned
  /\ Len(env.receipt.logs) = 2
  /\ ~HasSignature(env.receipt.logs[1])
  /\ Decodable(env.receipt.logs[2])
  /\ svc.result.toWalletAddress = parseTransferLog(env.receipt.logs[2]).to
  /\ svc.result.toWalletAddress # env.tx.to

\* C29: validateTransactionForTargetWallet examines every Transfer event of
\* the receipt: receivedInTargetWallet is true exactly when some log decodes
\* to a Transfer event whose receiver is the wallet (compared without regard
\* to case), at whatever position, and isValid = receivedInTargetWallet /\
\* isUSDTTransfer /\ contractMatches.
C29_ScansEveryEvent ==
  svc.op = "validateTransactionForTargetWallet" =>
    /\ svc.result.receivedInTargetWallet =
         (\E k \in 1..Len(env.receipt.logs) :
            /\ parseTransferLog(env.receipt.logs[k]) # NoTransfer
            /\ toLowerCase(parseTransferLog(env.receipt.logs[k]).to)
                 = toLowerCase(env.wallet))
    /\ svc.result.isValid =
         (/\ svc.result.receivedInTargetWallet
          /\ svc.result.isUSDTTransfer
          /\ svc.result.contractMatches)
    /\ svc.result.receivedInTargetWallet =>
         toLowerCase(svc.result.toAddress) = toLowerCase(env.wallet)

\* The first Transfer event of the receipt goes to another wallet, the second
\* one to the target wallet: the transaction is valid for the target wallet.
C29_Witness ==
  /\ svc.op = "validateTransactionForTargetWallet"
  /\ Len(env.receipt.logs) = 2
  /\ parseTransferLog(env.receipt.logs[1]) # NoTransfer
  /\ toLowerCase(parseTransferLog(env.receipt.logs[1]).to) # toLowerCase(env.wallet)
  /\ svc.result.receivedInTargetWallet
  /\ svc.result.isValid

\* getDetailsByHash returned for a contract interaction whose first log with
\* the Transfer signature was decoded.
TransferDecoded ==
  /\ ContractInteractionReturned
  /\ SelectSeq(env.receipt.logs, HasSignature) # <<>>
  /\ Decodable(SelectSeq(env.receipt.logs, HasSignature)[1])

\* The amount is the decoded value over 10^decimals and the decimals are
\* reported.
ReportsScaled ==
  /\ ToSmallestUnit(svc.result.amount, QuantityValue(env.token.decimals)) = RawValue
  /\ svc.result.tokenDecimals = env.token.decimals

\* The amount is the decoded value as it is and no decimals are reported.
ReportsRaw ==
  /\ svc.result.amount = RawValue
  /\ svc.result.tokenDecimals = Undefined

\* C31: when a Transfer event was decoded, getDetailsByHash reports the amount
\* as value / 10^decimals and reports tokenDecimals whenever the decimals of
\* the token were fetched, decimals 0 and an empty symbol included, and
\* reports the value unscaled only when they were not.
C31_ScaledWhenKnown ==
  TransferDecoded =>
    IF calls["token"].pc = "returned" THEN ReportsScaled ELSE ReportsRaw

\* What holds: scaled when the details were fetched with a symbol that is not
\* empty and decimals that are not 0; the value as it is, without symbol and
\* decimals, otherwise.
C31_ScaledWhenTruthy ==
  TransferDecoded =>
    IF /\ calls["token"].pc = "returned"
       /\ env.token.symbol # <<>>
       /\ env.token.decimals # <<"0">>
    THEN ReportsScaled
    ELSE ReportsRaw /\ svc.result.tokenSymbol = Undefined

\* A transfer of 1500000 of a token with 6 decimals, reported as 1.5.
C31_Witness ==
  /\ TransferDecoded
  /\ calls["token"].pc = "returned"
  /\ env.token.decimals = <<"6">>
  /\ RawValue = <<"1", "5", "0", "0", "0", "0", "0">>
  /\ svc.result.amount = <<"1", ".", "5">>
  /\ svc.result.tokenDecimals = <<"6">>

\* The log getDetailsByHash hands to parseTransferLog made it throw.
LogDecodingFailed ==
  /\ IsContractInteraction(env.tx)
  /\ SelectSeq(env.receipt.logs, HasSignature) # <<>>
  /\ parseTransferLogFails(SelectSeq(env.receipt.logs, HasSignature)[1])

\* The failures of the two lookups getDetailsByHash awaits itself end it with
\* the wrapped error, which carries the message of the pool's error and with
\* it the message of the last rejection.
PoolFailuresWrapped ==
  \A c \in {"lookup", "block"} :
    calls[c].pc = "threw" =>
      /\ svc.pc \in {c, "threw"}
      /\ svc.pc = "threw" =>
           /\ svc.error = DetailsFailedPrefix \o calls[c].error
           /\ \E err \in env.errs : IsSubstring(err.text, svc.error)
           /\ svc.result = IdleService.result

\* C32: no failure inside getDetailsByHash is swallowed: when the transaction
\* and receipt lookup, the block lookup, the token metadata query or the
\* decoding of the log failed, getDetailsByHash returns no result and throws
\* the wrapped error carrying the failure's message.
C32_NothingSwallowed ==
  svc.op = "getDetailsByHash" =>
    /\ PoolFailuresWrapped
    /\ svc.pc = "returned" =>
         /\ calls["token"].pc # "threw"
         /\ ~LogDecodingFailed

\* What holds: a failed transaction, receipt or block lookup is wrapped and
\* thrown; a result is returned after a failed token metadata query and after
\* a log that could not be decoded.
C32_LookupFailuresWrapped ==
  svc.op = "getDetailsByHash" =>
    /\ PoolFailuresWrapped
    /\ svc.pc = "threw" => calls["token"].pc = "idle"
    /\ (svc.pc = "returned" /\ calls["token"].pc = "threw") =>
         (svc.result.tokenMismatch /\ ~svc.result.isUSDT)

\* The block lookup was rejected by both endpoints after the transaction was
\* found: getDetailsByHash threw the wrapped error with the rejection's
\* message.
C32_Witness ==
  /\ svc.op = "getDetailsByHash"
  /\ svc.pc = "threw"
  /\ calls["lookup"].pc = "returned"
  /\ calls["block"].pc = "threw"
  /\ svc.error = DetailsFailedPrefix \o AllFailedPrefix \o <<"timeout">>

\* ------------------------------------------------- the pool with its clock
\* The endpoint records with lastChecked, and the health checks with the
\* readings of Date.now() they take: an executeWithRetry caller, the health
\* checks of the constructor and of the timer, and getBestProvider, on a clock
\* that reads env.now.
initializeEndpointsAt(rpcUrls, now) ==
  [k \in 1..Len(rpcUrls) |->
     [url |-> rpcUrls[k], isHealthy |-> TRUE, latency |-> 0, failureCount |-> 0,
      lastChecked |-> now]]

\* checkEndpointHealth up to its await: const start = Date.now().
CycleProbesAt(eps, cycle, now) ==
  { [cycle |-> cycle, ep |-> k, start |-> now] : k \in 1..Len(eps) }

\* Mutant: a passed health check leaves lastChecked as it was.
HealthCheckPassedUnstamped(ep, start, now) == ProbeSuccess(ep, now - start)

\* checkEndpointHealth, the try block after the await.
HealthCheckPassed(ep, start, now) ==
  [ProbeSuccess(ep, now - start) EXCEPT !.lastChecked = now]

\* Mutant: a failed health check writes the elapsed time as the latency.
HealthCheckFailedMeasured(ep, start, now) ==
  [ProbeFailure(ep) EXCEPT !.lastChecked = now, !.latency = now - start]

\* checkEndpointHealth, the catch block.
HealthCheckFailed(ep, start, now) ==
  [ProbeFailure(ep) EXCEPT !.lastChecked = now]

ClockEnvironment(n) ==
  [now |-> 0,
   ops |-> {{}, {n}, 1..n},
   errs |-> {[type |-> "Error", text |-> <<"timeout">>]},
   retries |-> {DefaultMaxRetries}]

InitClock ==
  /\ endpoints = initializeEndpointsAt(Urls(ClockEndpoints), 0)
  /\ env = ClockEnvironment(ClockEndpoints)
  /\ probes = CycleProbesAt(Urls(ClockEndpoints), 1, 0)
  /\ cycles = 1
  /\ timer = TRUE
  /\ calls = [c \in {1} |-> IdleCall]
  /\ svc = IdleService

\* A millisecond passes.
Elapse ==
  /\ env.now < MaxClock
  /\ env' = [env EXCEPT !.now = @ + 1]
  /\ UNCHANGED <<endpoints, probes, cycles, timer, calls, svc>>

\* setInterval callback: checkAllEndpoints, every health check reads the clock.
TickAt ==
  /\ timer
  /\ cycles < MaxCycles
  /\ cycles' = cycles + 1
  /\ probes' = probes \cup CycleProbesAt(endpoints, cycles + 1, env.now)
  /\ UNCHANGED <<endpoints, env, timer, calls, svc>>

\* checkEndpointHealth after getBlockNumber resolved.
ProbeSucceedsAt(p) ==
  /\ p \in probes
  /\ endpoints' = [endpoints EXCEPT
                     ![p.ep] = HealthCheckPassed(endpoints[p.ep], p.start, env.now)]
  /\ probes' = probes \ {p}
  /\ UNCHANGED <<env, cycles, timer, calls, svc>>

\* checkEndpointHealth after getBlockNumber rejected.
ProbeFailsAt(p) ==
  /\ p \in probes
  /\ endpoints' = [endpoints EXCEPT
                     ![p.ep] = HealthCheckFailed(endpoints[p.ep], p.start, env.now)]
  /\ probes' = probes \ {p}
  /\ UNCHANGED <<env, cycles, timer, calls, svc>>

NextClock ==
  \/ Elapse
  \/ TickAt
  \/ \E p \in probes : ProbeSucceedsAt(p)
  \/ \E p \in probes : ProbeFailsAt(p)
  \/ \E c \in Callers, okOn \in env.ops, m \in env.retries : Start(c, okOn, m)
  \/ \E c \in Callers : AttemptSucceeds(c)
  \/ \E c \in Callers, err \in env.errs : AttemptFails(c, err)
  \/ getBestProvider

SpecClock == InitClock /\ [][NextClock]_vars

\* A health check completes in this step.
ProbeCompletes(p) == p \in probes /\ p \notin probes'

\* What a successful executeWithRetry attempt and a failed one make of the
\* failure count and the flag of an endpoint.
HealthOf(ep) == [isHealthy |-> ep.isHealthy, failureCount |-> ep.failureCount]

\* C33: a health check that passes sets the endpoint's latency to the measured
\* round trip and its failure count and flag as a successful attempt does (0,
\* true); one that fails sets count and flag as a failed attempt does (one
\* more, healthy while below maxFailures) and leaves the latency; both set
\* lastChecked to the current time, and no other endpoint changes.
C33_ProbeRule ==
  [][\A p \in probes :
       ProbeCompletes(p) =>
         /\ \A k \in Eps \ {p.ep} : endpoints'[k] = endpoints[k]
         /\ endpoints'[p.ep].lastChecked = env.now
         /\ endpoints'[p.ep].url = endpoints[p.ep].url
         /\ \/ /\ endpoints'[p.ep].latency = env.now - p.start
               /\ endpoints'[p.ep].failureCount = 0
               /\ endpoints'[p.ep].isHealthy
               /\ HealthOf(endpoints'[p.ep]) = HealthOf(MarkSuccess(endpoints[p.ep]))
            \/ /\ endpoints'[p.ep].latency = endpoints[p.ep].latency
               /\ endpoints'[p.ep].failureCount = endpoints[p.ep].failureCount + 1
               /\ endpoints'[p.ep].isHealthy
                    = (endpoints[p.ep].failureCount + 1 < maxFailures)
               /\ HealthOf(endpoints'[p.ep]) = HealthOf(MarkFailure(endpoints[p.ep]))]_vars

\* Endpoint 1 was measured at 1 ms and has failed twice since, endpoint 2
\* was measured at 2 ms; the last health check of either completed at time 3.
C33_Witness ==
  /\ endpoints[1].latency = 1
  /\ endpoints[1].failureCount = 2
  /\ endpoints[1].isHealthy
  /\ endpoints[1].lastChecked = 3
  /\ endpoints[2].latency = 2
  /\ endpoints[2].failureCount = 0
  /\ endpoints[2].lastChecked = 3


\* ------------------------------------------- the pool with a rotation timer
\* The earlier RPCPool: besides the health-check timer it sets an hourly timer
\* whose callback advances currentIndex. env.currentIndex and
\* env.rotationTimer hold the two fields the later pool does not have.

\* Mutant: with no healthy endpoint the candidates are taken from
\* currentIndex on, wrapping around.
RotatingCandidatesFromIndex(eps, currentIndex, maxRetries) ==
  LET healthy == getHealthyEndpoints(eps)
  IN IF Len(healthy) > 0 THEN healthy
     ELSE [k \in 1..Min(Len(eps), maxRetries) |->
             ((currentIndex + k - 1) % Len(eps)) + 1]

\* The candidates of the earlier executeWithRetry: the healthy endpoints by
\* latency, else endpoints.slice(0, maxRetries); currentIndex is not read.
RotatingCandidates(eps, currentIndex, maxRetries) ==
  LET healthy == SortByLatency(eps, SelectSeq(Indices(eps), LAMBDA x : eps[x].isHealthy))
  IN IF Len(healthy) > 0 THEN healthy
     ELSE SubSeq(Indices(eps), 1, Min(Len(eps), maxRetries))

\* The earlier executeWithRetry up to its first await.
RotatingStartedCall(eps, currentIndex, okOn, maxRetries) ==
  LET call == [IdleCall EXCEPT
                 !.okOn = okOn, !.maxRetries = maxRetries,
                 !.healthy = SortByLatency(eps, SelectSeq(Indices(eps),
                                                          LAMBDA x : eps[x].isHealthy)),
                 !.candidates = RotatingCandidates(eps, currentIndex, maxRetries)]
  IN IF Min(Len(call.candidates), maxRetries) = 0
     THEN [call EXCEPT !.pc = "threw", !.error = AggregatedMessage(NoError)]
     ELSE [call EXCEPT !.pc = "await", !.i = 1,
                       !.attempts = <<call.candidates[1]>>]

\* The endpoint whose provider the earlier getBestProvider returns.
RotatingBestProvider(eps, currentIndex) ==
  LET healthy == SortByLatency(eps, SelectSeq(Indices(eps), LAMBDA x : eps[x].isHealthy))
  IN IF Len(healthy) = 0 THEN 1 ELSE healthy[1]

RotationEnvironment(n) ==
  [rtts |-> [k \in 1..n |-> {RetryLatency(k)}],
   ops |-> {{}, {n}, 1..n},
   errs |-> {[type |-> "Error", text |-> <<"timeout">>]},
   retries |-> {1, DefaultMaxRetries},
   currentIndex |-> 0,
   rotationTimer |-> TRUE]

\* The earlier pool after its first health checks have completed: endpoint k
\* was measured at RetryLatency(k) and has failed 0, 2 or 3 times in a row.
InitRotation ==
  \E fc \in [1..RotationEndpoints -> {0, maxFailures - 1, maxFailures}] :
    /\ endpoints = [k \in 1..RotationEndpoints |->
                      [url |-> k, isHealthy |-> (fc[k] < maxFailures),
                       latency |-> RetryLatency(k), failureCount |-> fc[k]]]
    /\ env = RotationEnvironment(RotationEndpoints)
    /\ probes = {}
    /\ cycles = 1
    /\ timer = TRUE
    /\ calls = [c \in {1} |-> IdleCall]
    /\ svc = IdleService

\* The callback of the rotation timer.
Rotate ==
  /\ env.rotationTimer
  /\ env' = [env EXCEPT !.currentIndex = (@ + 1) % Len(endpoints)]
  /\ UNCHANGED <<endpoints, probes, cycles, timer, calls, svc>>

\* A caller calls the earlier executeWithRetry(fn, maxRetries).
RotatingStart(c, okOn, maxRetries) ==
  /\ calls[c].pc = "idle"
  /\ calls' = [calls EXCEPT
                 ![c] = RotatingStartedCall(endpoints, env.currentIndex, okOn,
                                            maxRetries)]
  /\ UNCHANGED <<endpoints, env, probes, cycles, timer, svc>>

\* The earlier getBestProvider.
RotatingGetBestProvider ==
  /\ Len(endpoints) > 0
  /\ IF Len(SelectSeq(Indices(endpoints), LAMBDA x : endpoints[x].isHealthy)) = 0
     THEN endpoints' = [k \in 1..Len(endpoints) |->
                          [endpoints[k] EXCEPT !.failureCount = 0,
                                               !.isHealthy = TRUE]]
     ELSE endpoints' = endpoints
  /\ UNCHANGED <<env, probes, cycles, timer, calls, svc>>

\* The earlier destroy: both timers are cleared.
RotatingDestroy ==
  /\ timer' = FALSE
  /\ env' = [env EXCEPT !.rotationTimer = FALSE]
  /\ UNCHANGED <<endpoints, probes, cycles, calls, svc>>

\* checkEndpointHealth and the loop of executeWithRetry read as in the later
\* pool, their actions are the same.
NextRotation ==
  \/ Rotate
  \/ \E c \in Callers, okOn \in env.ops, m \in env.retries : RotatingStart(c, okOn, m)
  \/ \E c \in Callers : AttemptSucceeds(c)
  \/ \E c \in Callers, err \in env.errs : AttemptFails(c, err)
  \/ Tick
  \/ \E p \in probes, m \in UNION Range(env.rtts) : ProbeSucceeds(p, m)
  \/ \E p \in probes : ProbeFails(p)
  \/ RotatingGetBestProvider
  \/ RotatingDestroy

SpecRotation == InitRotation /\ [][NextRotation]_vars

\* What a user of the pool can tell: the endpoints' health, the health checks
\* in flight and the calls with the endpoints they chose and attempted.
PoolObservables == <<endpoints, probes, cycles, timer, calls>>

\* C34: the pool with the rotation timer and the pool without it behave the
\* same. Whatever currentIndex is, both select the same candidates in the same
\* order and the same best provider; a rotation changes nothing of the pool's
\* endpoints, health checks and calls; and every other step of the pool with
\* the timer is a step of the pool without it (its destroy clearing one more
\* timer).
C34_RotationUnobservable ==
  /\ [](\A index \in 0..(Len(endpoints) - 1) :
          /\ \A m \in env.retries :
               RotatingCandidates(endpoints, index, m) = Candidates(endpoints, m)
          /\ \A okOn \in env.ops, m \in env.retries :
               RotatingStartedCall(endpoints, index, okOn, m)
                 = StartedCall(endpoints, okOn, m)
          /\ RotatingBestProvider(endpoints, index) = BestProvider(endpoints))
  /\ [][\/ Next
        \/ destroy
        \/ /\ timer' = FALSE
           /\ UNCHANGED <<endpoints, probes, cycles, calls>>]_PoolObservables

\* With no endpoint healthy and currentIndex at 1, a call has started on the
\* first configured endpoint and failed over to the second.
C34_Witness ==
  /\ env.currentIndex = 1
  /\ calls[1].candidates = <<1, 2>>
  /\ calls[1].healthy = <<>>
  /\ calls[1].attempts = <<1, 2>>


\* ------------------------------------------ the candidates of a running call
\* C35: the candidates of a call and their order are those of the moment it
\* started. No step of a health check or of another call changes the list of
\* a call in progress, and the endpoints the call attempts are, in order, the
\* first ones of that list, whatever the endpoints' flags and latencies have
\* become meanwhile.
C35_CandidatesFixed ==
  /\ [](\A c \in Callers :
          calls[c].pc # "idle" =>
            /\ IsPrefix(calls[c].attempts, calls[c].candidates)
            /\ Len(calls[c].attempts) = calls[c].i)
  /\ [][\A c \in Callers :
          calls[c].pc # "idle" =>
            /\ calls'[c].candidates = calls[c].candidates
            /\ IsPrefix(calls[c].attempts, calls'[c].attempts)]_vars

\* Call 1 started on the fresh pool with the endpoints in configured order and
\* has attempted all three in that order, while the health checks have since
\* measured endpoint 1 slower than the other two.
C35_Witness ==
  /\ calls[1].candidates = <<1, 2, 3>>
  /\ calls[1].attempts = <<1, 2, 3>>
  /\ calls[1].pc = "await"
  /\ getHealthyEndpoints(endpoints) = <<2, 3, 1>>


\* ------------------------------------------------- recovery of an endpoint
\* A pool most of whose endpoints have failed: endpoint k was measured at
\* RetryLatency(k) and has failed 2 or 3 times in a row. One executeWithRetry
\* caller with maxRetries 2 or 3, the timer's health checks and
\* getBestProvider act on it.
ResetEnvironment(n) ==
  [rtts |-> [k \in 1..n |-> {RetryLatency(k)}],
   ops |-> {{}, {n}, 1..n},
   errs |-> {[type |-> "Error", text |-> <<"timeout">>]},
   retries |-> {DefaultMaxRetries - 1, DefaultMaxRetries}]

InitReset ==
  \E fc \in [1..NumEndpoints -> {maxFailures - 1, maxFailures}] :
    /\ endpoints = [k \in 1..NumEndpoints |->
                      [url |-> k, isHealthy |-> (fc[k] < maxFailures),
                       latency |-> RetryLatency(k), failureCount |-> fc[k]]]
    /\ env = ResetEnvironment(NumEndpoints)
    /\ probes = {}
    /\ cycles = 1
    /\ timer = TRUE
    /\ calls = [c \in {1} |-> IdleCall]
    /\ svc = IdleService

SpecReset == InitReset /\ [][Next]_vars

\* Endpoint k goes from unhealthy to healthy in this step.
Recovers(k) == ~endpoints[k].isHealthy /\ endpoints'[k].isHealthy

\* The step is the reset of getBestProvider: no endpoint was healthy, all are
\* healthy with no failure after it.
MassReset ==
  /\ \A j \in Eps : ~endpoints[j].isHealthy
  /\ \A j \in Eps : endpoints'[j].isHealthy /\ endpoints'[j].failureCount = 0
  /\ calls' = calls
  /\ probes' = probes

\* The step is a health check of endpoint k that passed.
ProbePassed(k) ==
  /\ \E p \in probes : p.ep = k /\ probes' = probes \ {p}
  /\ calls' = calls
  /\ endpoints'[k].failureCount = 0

\* The step is an attempt on endpoint k that succeeded.
AttemptPassed(k) ==
  \E c \in Callers :
    /\ calls[c].pc = "await"
    /\ calls[c].candidates[calls[c].i] = k
    /\ calls'[c].pc = "returned"
    /\ calls'[c].result = k
    /\ endpoints'[k].failureCount = 0

\* The step is a failure caught by the executeWithRetry call of c.
AttemptFailed(c) ==
  /\ calls[c].pc = "await"
  /\ calls'[c] # calls[c]
  /\ calls'[c].pc # "returned"

\* C36: executeWithRetry resets nothing. A failed attempt changes the
\* attempted endpoint only, by one more failure, and makes no endpoint
\* healthy; starting a call changes no endpoint; so the endpoints after the
\* first maxRetries of a call that found none healthy keep their counts. An
\* unhealthy endpoint becomes healthy only by the reset of getBestProvider, by
\* a health check of it that passes or by an attempt on it that succeeds.
C36_NoMassReset ==
  [][/\ \A k \in Eps :
          Recovers(k) => (MassReset \/ ProbePassed(k) \/ AttemptPassed(k))
     /\ \A c \in Callers :
          AttemptFailed(c) =>
            LET e == calls[c].candidates[calls[c].i]
            IN /\ endpoints'[e].failureCount = endpoints[e].failureCount + 1
               /\ endpoints'[e].isHealthy => endpoints[e].isHealthy
               /\ \A k \in Eps \ {e} : endpoints'[k] = endpoints[k]
     /\ \A c \in Callers :
          (calls[c].pc = "idle" /\ calls'[c].pc # "idle") =>
            endpoints' = endpoints]_vars

\* No endpoint was healthy when the call with maxRetries 2 started; it has
\* failed on the first two configured endpoints, and all three endpoints are
\* unhealthy, the third with the three failures it had.
C36_Witness ==
  /\ calls[1].pc = "threw"
  /\ calls[1].healthy = <<>>
  /\ calls[1].maxRetries = 2
  /\ calls[1].attempts = <<1, 2>>
  /\ \A k \in Eps : ~endpoints[k].isHealthy
  /\ endpoints[1].failureCount = maxFailures + 1
  /\ endpoints[2].failureCount = maxFailures + 1
  /\ endpoints[3].failureCount = maxFailures


\* ------------------------------------------- health checks that go on forever
\* The pool on its own, with a timer that fires again and again until destroy.
\* env.stable holds the endpoints whose getBlockNumber resolves from now on.
\* A cycle starts when the health checks of the cycle before have completed
\* (the period is an hour), and an endpoint outside env.stable stops failing
\* at MaxFailureCount failures in a row, which keeps the state space finite.
LiveEnvironment(n) ==
  [rtts |-> [k \in 1..n |-> {10 * k}],
   stable |-> {}]

InitLive ==
  Constructed(Urls(LiveEndpoints), LiveEnvironment(LiveEndpoints), {})

\* From now on the liveness call on endpoint k resolves.
Stabilise(k) ==
  /\ k \notin env.stable
  /\ env' = [env EXCEPT !.stable = @ \cup {k}]
  /\ UNCHANGED <<endpoints, probes, cycles, timer, calls, svc>>

\* Mutant: the timer fires once only (setTimeout in place of setInterval).
TickOnce ==
  /\ timer
  /\ probes = {}
  /\ cycles < 2
  /\ cycles' = cycles + 1
  /\ probes' = CycleProbes(endpoints, cycles + 1)
  /\ UNCHANGED <<endpoints, env, timer, calls, svc>>

\* setInterval callback, any number of times; cycles counts up to MaxCycles.
TickAgain ==
  /\ timer
  /\ probes = {}
  /\ cycles' = Min(cycles + 1, MaxCycles)
  /\ probes' = CycleProbes(endpoints, Min(cycles + 1, MaxCycles))
  /\ UNCHANGED <<endpoints, env, timer, calls, svc>>

\* checkEndpointHealth after getBlockNumber rejected, on an endpoint whose
\* liveness call may still fail.
ProbeFailsUnstable(p) ==
  /\ p.ep \notin env.stable
  /\ endpoints[p.ep].failureCount < MaxFailureCount
  /\ ProbeFails(p)

\* The health check of endpoint k that is in flight completes.
ProbeCompletesOn(k) ==
  \E p \in probes :
    /\ p.ep = k
    /\ \/ \E m \in env.rtts[k] : ProbeSucceeds(p, m)
       \/ ProbeFailsUnstable(p)

NextLive ==
  \/ \E k \in Eps : Stabilise(k)
  \/ TickAgain
  \/ \E k \in Eps : ProbeCompletesOn(k)
  \/ destroy

\* The timer fires every period while it is set, and every getBlockNumber
\* call settles (the transport times out).
FairLive ==
  /\ WF_vars(TickAgain)
  /\ \A k \in 1..LiveEndpoints : WF_vars(ProbeCompletesOn(k))

SpecLive == InitLive /\ [][NextLive]_vars /\ FairLive

Attempted(c) ==
  IF calls[c].pc = "await" THEN {calls[c].candidates[calls[c].i]} ELSE {}

\* C38: a step of executeWithRetry (its start, a resolved or a rejected
\* attempt) changes no endpoint's latency or lastChecked and nothing of an
\* endpoint other than the one attempted; and whenever an endpoint's latency
\* changes, the step is a health check of that endpoint that passed.
C38_CallFrame ==
  [][/\ \A c \in Callers :
          calls'[c] # calls[c] =>
            /\ \A k \in Eps :
                 /\ endpoints'[k].latency = endpoints[k].latency
                 /\ endpoints'[k].lastChecked = endpoints[k].lastChecked
                 /\ endpoints'[k].url = endpoints[k].url
            /\ \A k \in Eps \ Attempted(c) : endpoints'[k] = endpoints[k]
     /\ \A k \in Eps :
          endpoints'[k].latency # endpoints[k].latency =>
            /\ calls' = calls
            /\ \E p \in probes :
                 /\ p.ep = k
                 /\ probes' = probes \ {p}
                 /\ endpoints'[k].latency = env.now - p.start
            /\ endpoints'[k].isHealthy
            /\ endpoints'[k].failureCount = 0]_vars

\* The call has failed on endpoint 1 and returned from endpoint 2; at time 3
\* the endpoints carry the latency and the lastChecked of their health checks
\* at times 1 and 2.
C38_Witness ==
  /\ calls[1].pc = "returned"
  /\ calls[1].attempts = <<1, 2>>
  /\ calls[1].result = 2
  /\ env.now = 3
  /\ endpoints[1].latency = 1
  /\ endpoints[1].lastChecked = 1
  /\ endpoints[1].failureCount = 1
  /\ endpoints[2].latency = 2
  /\ endpoints[2].lastChecked = 2


\* ------------------------------------------------ endpoints never measured
\* k comes before j in the list (j may be missing from it).
RanksBefore(list, k, j) ==
  \E a \in 1..Len(list) :
    /\ list[a] = k
    /\ \A b \in 1..Len(list) : list[b] = j => a < b

\* Endpoint k is healthy and has latency 0, endpoint j is healthy and has
\* been measured at more than 0.
UnmeasuredAndMeasured(k, j) ==
  /\ endpoints[k].isHealthy
  /\ endpoints[k].latency = 0
  /\ endpoints[j].isHealthy
  /\ endpoints[j].latency > 0

\* C39: every endpoint starts with latency 0 and keeps it until a health
\* check of it passes. While such an endpoint is healthy, it comes before
\* every healthy endpoint measured at more than 0 in getHealthyEndpoints, the
\* provider getBestProvider returns has latency 0, and a call that starts
\* gets it before the measured ones among its candidates.
C39_UnmeasuredFirst ==
  /\ \A k \in Eps : endpoints[k].latency = 0
  /\ [][\A k \in Eps :
          (endpoints[k].latency = 0 /\ endpoints'[k].latency # 0) =>
            \E p \in probes : p.ep = k /\ p \notin probes' /\ p.start < env.now]_vars
  /\ [](\A k \in Eps, j \in Eps :
          UnmeasuredAndMeasured(k, j) =>
            /\ RanksBefore(getHealthyEndpoints(endpoints), k, j)
            /\ endpoints[BestProvider(endpoints)].latency = 0)
  /\ [][\A c \in Callers, k \in Eps, j \in Eps :
          (calls[c].pc = "idle" /\ calls'[c].pc # "idle"
             /\ UnmeasuredAndMeasured(k, j)) =>
            /\ RanksBefore(calls'[c].candidates, k, j)
            /\ endpoints[calls'[c].attempts[1]].latency = 0]_vars

\* The health check of endpoint 1 has failed, the one of endpoint 2 has
\* passed in 1 ms: the call that started then tries endpoint 1 first.
C39_Witness ==
  /\ endpoints[1].latency = 0
  /\ endpoints[1].failureCount = 1
  /\ endpoints[1].isHealthy
  /\ endpoints[2].latency = 1
  /\ endpoints[2].failureCount = 0
  /\ calls[1].pc = "await"
  /\ calls[1].healthy = <<1, 2>>
  /\ calls[1].attempts = <<1>>


\* --------------------------------------- the transaction and its receipt
\* The provider of endpoint e rejects getTransaction or getTransactionReceipt.
PairRejects(e) == env.view[e].tx = "reject" \/ env.view[e].receipt = "reject"

\* C40: getDetailsByHash asks for the transaction and the receipt in one
\* pool operation. The pair it goes on with was resolved, both values, by the
\* provider of the endpoint that call returned from; and an attempt in which
\* either lookup rejects adds exactly one failure to its endpoint, touches no
\* other endpoint, and the call goes on to its next candidate or throws.
C40_PairFromOneEndpoint ==
  /\ [](calls["lookup"].pc = "returned" =>
          /\ ~PairRejects(calls["lookup"].result)
          /\ calls["lookup"].result = calls["lookup"].attempts[calls["lookup"].i])
  /\ [](svc.pc \in {"block", "token", "returned"} =>
          /\ calls["lookup"].pc = "returned"
          /\ env.view[calls["lookup"].result].tx = "present"
          /\ env.view[calls["lookup"].result].receipt = "present")
  /\ [][(calls["lookup"].pc = "await" /\ calls'["lookup"] # calls["lookup"]) =>
          LET call == calls["lookup"]
              e == call.candidates[call.i]
          IN IF PairRejects(e)
             THEN /\ endpoints'[e].failureCount = endpoints[e].failureCount + 1
                  /\ \A k \in Eps \ {e} : endpoints'[k] = endpoints[k]
                  /\ \/ /\ calls'["lookup"].pc = "await"
                        /\ calls'["lookup"].i = call.i + 1
                     \/ /\ calls'["lookup"].pc = "threw"
                        /\ call.i = Limit(call)
             ELSE /\ calls'["lookup"].pc = "returned"
                  /\ calls'["lookup"].result = e
                  /\ endpoints'[e].failureCount = 0]_vars

\* The provider of endpoint 2 has the transaction but rejects the receipt
\* lookup: endpoint 2 has one failure, and the pair was returned by endpoint 1.
C40_Witness ==
  /\ svc.pc = "lookup"
  /\ env.view[2].tx = "present"
  /\ env.view[2].receipt = "reject"
  /\ calls["lookup"].attempts = <<2, 1>>
  /\ calls["lookup"].pc = "returned"
  /\ calls["lookup"].result = 1
  /\ endpoints[2].failureCount = 1
  /\ endpoints[1].failureCount = 0

====
